---- MODULE Spec2Model ----
(***************************************************************************)
(* Model of the reconciliation / ingestion scripts under                   *)
(* server/python_scripts: the relational store (players,                   *)
(* player_game_logs, advanced_box_scores) and the per-record ingestion     *)
(* steps of every script that writes to it.                                *)
(*                                                                         *)
(* Numbers.  Reals are fixed-point integers: a raw numeric cell and every  *)
(* rating / percentage is held in thousandths ("milli"); minutes returned  *)
(* by parse_minutes are held in 1/60000 of a minute so that MM + SS/60 is  *)
(* exact.                                                                  *)
(***************************************************************************)
EXTENDS Integers, Sequences, FiniteSets, TLC

VARIABLES
    players,              \* table players
    player_game_logs,     \* table player_game_logs
    advanced_box_scores,  \* table advanced_box_scores
    game_log_seq,         \* next value of the game_log_id serial sequence
    rosters_pc,           \* fetch_bref_rosters_and_logs.main: where the run is
    player_map,           \* fetch_bref_rosters_and_logs.main: name -> player_id
    workers,              \* two scripts on their own connections: transactions
    fetch,                \* the retrying fetch under way: attempt, calls, sleeps
    run,                  \* one script's main loop: its units, delays, commits
    call,                 \* the last call of a value helper: argument, result
    last                  \* history: the last ingestion step and its input

store == <<players, player_game_logs, advanced_box_scores>>
vars == <<players, player_game_logs, advanced_box_scores, game_log_seq,
          rosters_pc, fetch, run, player_map, workers, last, call>>

----------------------------------------------------------------------------
(* Bounds *)

\* largest value the game_log_id sequence may hand out
MaxSeq == 2

\* SQL NULL / Python None in a numeric column
Null == 0 - 1000000

\* SQL NULL / Python None in a text column
NullText == "NULL"

----------------------------------------------------------------------------
(* Raw cells of a scraped table: what pandas hands to the parse_* helpers *)

Nan == [k |-> "nan", a |-> 0, b |-> 0]
Junk == [k |-> "junk", a |-> 0, b |-> 0]

\* the empty string, the text "inf" (or the float it reads as), the text
\* "nan" (a string: pd.isna is False for it)
Blank == [k |-> "blank", a |-> 0, b |-> 0]
Inf == [k |-> "inf", a |-> 0, b |-> 0]
NanText == [k |-> "nantext", a |-> 0, b |-> 0]

\* the floats inf and nan as results, and a call left by an exception
PosInf == 0 - 5000000
NotANumber == 0 - 2000000
OverflowError == 0 - 3000000
Clock(mm, ss) == [k |-> "clock", a |-> mm, b |-> ss]
Num(milli) == [k |-> "num", a |-> milli, b |-> 0]

TruncDiv(x, d) == IF x >= 0 THEN x \div d ELSE 0 - ((0 - x) \div d)

\* a faulty parse_minutes: the seconds of a clock are dropped
parse_minutes_whole(mp) ==
    CASE mp.k = "clock" -> mp.a * 60000
      [] mp.k = "num" -> mp.a * 60
      [] OTHER -> 0

\* parse_minutes: minutes in 1/60000 min; 0 for None/NaN and on ValueError;
\* float("inf") and float("nan") are floats and are returned
parse_minutes(mp) ==
    CASE mp.k = "nan" -> 0
      [] mp.k = "clock" -> mp.a * 60000 + mp.b * 1000
      [] mp.k = "num" -> mp.a * 60
      [] mp.k = "inf" -> PosInf
      [] mp.k = "nantext" -> NotANumber
      [] OTHER -> 0

\* parse_int: int(float(val)), 0 for None/NaN and on ValueError, which
\* int(nan) raises; int(inf) raises OverflowError, which no clause handles
parse_int(val) ==
    CASE val.k = "nan" -> 0
      [] val.k = "num" -> TruncDiv(val.a, 1000)
      [] val.k = "inf" -> OverflowError
      [] OTHER -> 0

\* parse_rating: float(val) in milli, 0.0 for None/NaN and on ValueError
parse_rating(val) ==
    CASE val.k = "nan" -> 0
      [] val.k = "num" -> val.a
      [] val.k = "inf" -> PosInf
      [] val.k = "nantext" -> NotANumber
      [] OTHER -> 0

\* parse_pct: float of the cell (a leading "." gets a "0" prefix), in milli
parse_pct(val) ==
    CASE val.k = "nan" -> 0
      [] val.k = "num" -> val.a
      [] val.k = "inf" -> PosInf
      [] val.k = "nantext" -> NotANumber
      [] OTHER -> 0

\* Python round() of a value held in 1/60000: nearest integer, ties to even
\* a faulty round: the fraction of a minute is cut off
round_minutes_down(u) == u \div 60000

round_minutes(u) ==
    LET q == u \div 60000
        r == u % 60000
    IN  IF 2 * r < 60000 THEN q
        ELSE IF 2 * r > 60000 THEN q + 1
        ELSE IF q % 2 = 0 THEN q ELSE q + 1

\* TEAM_ABBR_MAP.get(team, team)
TEAM_ABBR_MAP(team) ==
    CASE team = "BRK" -> "BKN"
      [] team = "PHO" -> "PHX"
      [] OTHER -> team

\* get_season_string: <<start year, last two digits of end year>>
get_season_string(game_date) ==
    LET season_end_year == IF game_date.month >= 10 THEN game_date.year + 1
                           ELSE game_date.year
    IN  <<season_end_year - 1, season_end_year % 100>>

----------------------------------------------------------------------------
(* Input domains *)

\* "Nenê" and "Nene": two source spellings of one player
NameAccent == <<"N", "e", "n", "ê">>
NamePlain == <<"N", "e", "n", "e">>
PlayerNames == {NameAccent, NamePlain}

Dates == {[year |-> 2026, month |-> 1, day |-> 5]}

NoAdvCells == [has |-> FALSE, ORtg |-> Nan, DRtg |-> Nan, TS |-> Nan,
               eFG |-> Nan, USG |-> Nan]
AdvCellsA == [has |-> TRUE, ORtg |-> Num(118000), DRtg |-> Num(104000),
              TS |-> Num(567), eFG |-> Num(410), USG |-> Num(33400)]
AdvCellsBlank == [has |-> TRUE, ORtg |-> Nan, DRtg |-> Nan, TS |-> Nan,
                  eFG |-> Nan, USG |-> Nan]

\* the cells of one player's line in the basic table
LineDNP == [MP |-> Junk, PTS |-> Junk, TRB |-> Junk, AST |-> Junk,
            STL |-> Junk, BLK |-> Junk]
LineZero == [MP |-> Clock(0, 0), PTS |-> Num(0), TRB |-> Num(1000),
             AST |-> Num(0), STL |-> Num(0), BLK |-> Num(0)]
LineA == [MP |-> Clock(35, 30), PTS |-> Num(28000), TRB |-> Num(4000),
          AST |-> Num(6000), STL |-> Num(1000), BLK |-> Nan]
LineB == [MP |-> Clock(0, 20), PTS |-> Num(0), TRB |-> Num(0),
          AST |-> Num(0), STL |-> Nan, BLK |-> Junk]

HtmlRow(name, team, other, line, adv) ==
    [name |-> name, team |-> team, other |-> other, cells |-> line,
     adv |-> adv]

TeamPairs == {<<"GSW", "PHO">>}

\* one player's line in the basic table of a box-score page
BasicRows ==
    {HtmlRow(n, tm[1], tm[2], line, NoAdvCells) :
        n \in PlayerNames, tm \in TeamPairs,
        line \in {LineDNP, LineA, LineB}}

\* one player's basic line joined with his line in the advanced table
BrefRows ==
    BasicRows \cup
    {HtmlRow(n, tm[1], tm[2], la[1], la[2]) :
        n \in PlayerNames, tm \in TeamPairs,
        la \in {<<LineZero, AdvCellsA>>, <<LineA, AdvCellsA>>,
                <<LineB, AdvCellsBlank>>}}

----------------------------------------------------------------------------
(* The store *)

\* no game log matched: game_log_id = None
NoMatch == 0

NoPlayer == [player_id |-> 0, full_name |-> <<>>, team_abbreviation |-> "",
             headshot_url |-> Null]
NoStats == [min |-> Null, pts |-> Null, reb |-> Null, ast |-> Null,
            stl |-> Null, blk |-> Null]

StatsOf(r) == [min |-> r.min, pts |-> r.pts, reb |-> r.reb, ast |-> r.ast,
               stl |-> r.stl, blk |-> r.blk]

MaxOf(S) == IF S = {} THEN 0 ELSE CHOOSE m \in S : \A x \in S : x <= m

\* rows of player_game_logs under the unique key (player_id, season, game_date)
LogsAt(logs, pid, season, game_date) ==
    {g \in logs : g.player_id = pid /\ g.season = season
                  /\ g.game_date = game_date}

\* SELECT player_id FROM players WHERE full_name = %s; fetchone() may return
\* any matching row, or no row when there is none
PlayerPicks(pl, name) ==
    LET found == {p \in pl : p.full_name = name}
    IN  IF found = {} THEN {NoPlayer} ELSE found

\* get_or_create_player, given the row fetchone() returned
get_or_create_player(pl, player_name, team_abbr, row) ==
    IF row # NoPlayer
    THEN [players |-> {IF p.player_id = row.player_id
                       THEN [p EXCEPT !.team_abbreviation = team_abbr]
                       ELSE p : p \in pl},
          player_id |-> row.player_id]
    ELSE LET id == MaxOf({p.player_id : p \in pl}) + 1
         IN  [players |-> pl \cup {[player_id |-> id,
                                    full_name |-> player_name,
                                    team_abbreviation |-> team_abbr,
                                    headshot_url |-> Null]},
              player_id |-> id]

NewLog(id, pid, season, game_date, opponent, stats) ==
    [game_log_id |-> id, player_id |-> pid, season |-> season,
     game_date |-> game_date, opponent |-> opponent, game_id |-> NullText,
     min |-> stats.min, pts |-> stats.pts, reb |-> stats.reb,
     ast |-> stats.ast, stl |-> stats.stl, blk |-> stats.blk]

\* a faulty upsert: the conflict branch adds the new stats to the stored ones
UpsertGameLogAccumulate(logs, seq, pid, season, game_date, opponent, stats) ==
    LET hitRows == LogsAt(logs, pid, season, game_date)
    IN  IF hitRows # {}
        THEN [logs |-> {IF g \in hitRows
                        THEN [g EXCEPT !.min = @ + stats.min,
                                       !.pts = @ + stats.pts,
                                       !.reb = @ + stats.reb,
                                       !.ast = @ + stats.ast,
                                       !.stl = @ + stats.stl,
                                       !.blk = @ + stats.blk]
                        ELSE g : g \in logs},
              seq |-> seq + 1,
              game_log_id |-> (CHOOSE g \in hitRows : TRUE).game_log_id]
        ELSE [logs |-> logs \cup {NewLog(seq, pid, season, game_date,
                                         opponent, stats)},
              seq |-> seq + 1,
              game_log_id |-> seq]

\* INSERT ... ON CONFLICT (player_id, season, game_date) DO UPDATE SET
\* min, pts, reb, ast, stl, blk ... RETURNING game_log_id.
\* The serial default is evaluated before the conflict is detected, so the
\* sequence advances on both branches.
UpsertGameLog(logs, seq, pid, season, game_date, opponent, stats) ==
    LET hitRows == LogsAt(logs, pid, season, game_date)
    IN  IF hitRows # {}
        THEN [logs |-> {IF g \in hitRows
                        THEN [g EXCEPT !.min = stats.min, !.pts = stats.pts,
                                       !.reb = stats.reb, !.ast = stats.ast,
                                       !.stl = stats.stl, !.blk = stats.blk]
                        ELSE g : g \in logs},
              seq |-> seq + 1,
              game_log_id |-> (CHOOSE g \in hitRows : TRUE).game_log_id]
        ELSE [logs |-> logs \cup {NewLog(seq, pid, season, game_date,
                                         opponent, stats)},
              seq |-> seq + 1,
              game_log_id |-> seq]

\* fetch_bref_all_stats.insert_game_log
\* a faulty upsert: the conflict clause also sets opponent
insert_game_log_opp(logs, seq, player_id, game_date, stats, season_string) ==
    LET g == UpsertGameLog(logs, seq, player_id, season_string, game_date,
                           stats.opponent, stats)
    IN  [g EXCEPT !.logs = {IF r.game_log_id = g.game_log_id
                            THEN [r EXCEPT !.opponent = stats.opponent]
                            ELSE r : r \in g.logs}]

insert_game_log(logs, seq, player_id, game_date, stats, season_string) ==
    UpsertGameLog(logs, seq, player_id, season_string, game_date,
                  stats.opponent, stats)

\* a faulty upsert: a game log that has an advanced row keeps it
UpsertAdvancedKeep(adv, game_log_id, stats) ==
    IF \E a \in adv : a.game_log_id = game_log_id THEN adv
    ELSE adv \cup {[game_log_id |-> game_log_id,
                    offensive_rating |-> stats.ortg,
                    defensive_rating |-> stats.drtg,
                    net_rating |-> stats.net_rtg,
                    effective_fg_percentage |-> stats.efg_pct,
                    true_shooting_percentage |-> stats.ts_pct,
                    usage_percentage |-> stats.usg_pct,
                    pace |-> Null,
                    player_impact_estimate |-> Null]}

\* INSERT INTO advanced_box_scores ... ON CONFLICT (game_log_id) DO UPDATE
\* of the Basketball Reference scripts; pace and player_impact_estimate
\* are not among the written columns
UpsertAdvanced(adv, game_log_id, stats) ==
    IF \E a \in adv : a.game_log_id = game_log_id
    THEN {IF a.game_log_id = game_log_id
          THEN [a EXCEPT !.true_shooting_percentage = stats.ts_pct,
                         !.effective_fg_percentage = stats.efg_pct,
                         !.offensive_rating = stats.ortg,
                         !.defensive_rating = stats.drtg,
                         !.net_rating = stats.net_rtg,
                         !.usage_percentage = stats.usg_pct]
          ELSE a : a \in adv}
    ELSE adv \cup {[game_log_id |-> game_log_id,
                    offensive_rating |-> stats.ortg,
                    defensive_rating |-> stats.drtg,
                    net_rating |-> stats.net_rtg,
                    effective_fg_percentage |-> stats.efg_pct,
                    true_shooting_percentage |-> stats.ts_pct,
                    usage_percentage |-> stats.usg_pct,
                    pace |-> Null,
                    player_impact_estimate |-> Null]}

\* fetch_bref_all_stats.upsert_advanced_stats: skipped when ortg is None
upsert_advanced_stats(adv, game_log_id, stats) ==
    IF stats.ortg = Null THEN adv
    ELSE UpsertAdvanced(adv, game_log_id, stats)

----------------------------------------------------------------------------
(* fetch_bref_all_stats.py *)

\* both parsed minutes and parsed points are zero
ZeroActivity(minutes, pts) == minutes = 0 /\ pts = 0

\* a faulty filter: only the "Did Not Play" text cells are dropped
DidNotPlayTextOnly(row) ==
    row.cells.MP.k = "junk" /\ row.cells.PTS.k = "junk"

\* the activity filter of the box-score scrapers:
\* "if minutes == 0 and pts == 0: continue"
DidNotPlay(row) ==
    parse_minutes(row.cells.MP) = 0 /\ parse_int(row.cells.PTS) = 0

\* fetch_all_stats_for_game: the players_data entry built from a player's
\* basic line, then filled from his advanced line
fetch_all_stats_for_game(row) ==
    LET ortg == parse_rating(row.adv.ORtg)
        drtg == parse_rating(row.adv.DRtg)
        withAdv == row.adv.has /\ ~(ortg = 0 /\ drtg = 0)
    IN  [name |-> row.name,
         team |-> TEAM_ABBR_MAP(row.team),
         opponent |-> TEAM_ABBR_MAP(row.other),
         min |-> round_minutes(parse_minutes(row.cells.MP)),
         pts |-> parse_int(row.cells.PTS),
         reb |-> parse_int(row.cells.TRB),
         ast |-> parse_int(row.cells.AST),
         stl |-> parse_int(row.cells.STL),
         blk |-> parse_int(row.cells.BLK),
         ts_pct |-> IF withAdv THEN parse_pct(row.adv.TS) * 100 ELSE Null,
         efg_pct |-> IF withAdv THEN parse_pct(row.adv.eFG) * 100 ELSE Null,
         ortg |-> IF withAdv THEN ortg ELSE Null,
         drtg |-> IF withAdv THEN drtg ELSE Null,
         net_rtg |-> IF withAdv
                     THEN (IF ortg # 0 /\ drtg # 0 THEN ortg - drtg ELSE 0)
                     ELSE Null,
         usg_pct |-> IF withAdv THEN parse_pct(row.adv.USG) ELSE Null]

\* process_date, the body of "for stats in all_players_stats", on a store
\* d = [players, logs, adv, seq]; row is what fetchone() returned
IngestAllStats(d, stats, target_date, season_string, row) ==
    LET r == get_or_create_player(d.players, stats.name, stats.team, row)
        g == insert_game_log(d.logs, d.seq, r.player_id, target_date, stats,
                             season_string)
    IN  [players |-> r.players, logs |-> g.logs, seq |-> g.seq,
         adv |-> upsert_advanced_stats(d.adv, g.game_log_id, stats),
         player_id |-> r.player_id, game_log_id |-> g.game_log_id]

Store == [players |-> players, logs |-> player_game_logs,
          adv |-> advanced_box_scores, seq |-> game_log_seq]

\* the sequence can still hand out a value
Room == game_log_seq <= MaxSeq

OldStats(pid, season, game_date) ==
    LET hitRows == LogsAt(player_game_logs, pid, season, game_date)
    IN  IF hitRows = {} THEN NoStats ELSE StatsOf(CHOOSE g \in hitRows : TRUE)

\* no sleep taken yet
NoNap == [after |-> 0 - 1, ms |-> 0]

\* no retrying fetch has been called yet
NoFetch == [script |-> "none", fn |-> "none", pc |-> "idle", attempt |-> 0,
            calls |-> 0, failed |-> 0, fallbacks |-> 0, naps |-> 0,
            nap |-> NoNap, result |-> "none"]

\* no value helper has been called yet
NoCall == [fn |-> "none", arg |-> Nan, out |-> 0, raised |-> FALSE]

\* the three tables with no row
NoStore == [players |-> {}, logs |-> {}, adv |-> {}]

\* no main loop is running.  A run holds the script, the place in main, the
\* dates, teams and players still to visit, the rows fetched and not yet
\* written, player_map, and the tables as of the last commit; polite, called, rude,
\* failed, exhausted, ingested and resumed are history: whether a
\* random_delay was taken since the last request, whether a request was
\* made, whether a request followed another without a delay, whether a
\* statement raised, whether a fetch raised on its last attempt, the units
\* written, and whether a unit was written after such a fetch
NoRun == [script |-> "none", pc |-> "idle", dates |-> <<>>, games |-> 0,
          pending |-> <<>>, teams |-> <<>>, map |-> {}, queue |-> <<>>,
          unit |-> 0,
          polite |-> FALSE, called |-> FALSE, rude |-> FALSE,
          failed |-> FALSE, exhausted |-> FALSE, ingested |-> {},
          resumed |-> FALSE, committed |-> NoStore]

\* history before any step; the last six fields are the row counts of a
\* run of fetch_all_players_advanced_box_scores over one player
NoAdvanced == [game_log_id |-> NoMatch]

NoStep == [op |-> "none", zero |-> FALSE, filtered |-> FALSE,
           hit |-> FALSE, changed |-> FALSE, created |-> FALSE,
           rows |-> 0, undated |-> 0, inserted |-> 0, skipped |-> 0,
           unmatched |-> 0, added |-> 0,
           adv_id |-> NoMatch, adv_had |-> FALSE, adv_changed |-> FALSE,
           adv_rec |-> NoAdvanced]

\* history record of one processed source record: the kind of script (a
\* box-score page scraper, the season backfill, a stats-API script), whether
\* its parsed minutes and points were both zero, whether the activity filter
\* dropped it, whether its key was already present (hit) and with other
\* stats (changed), and whether a player_game_logs row was added (created)
Step(op, pid, season, game_date, stats, zero, filtered, logsAfter) ==
    LET before == LogsAt(player_game_logs, pid, season, game_date)
    IN  [NoStep EXCEPT
           !.op = op, !.zero = zero, !.filtered = filtered,
           !.hit = (~filtered /\ before # {}),
           !.changed = (~filtered /\ before # {}
                        /\ OldStats(pid, season, game_date) # StatsOf(stats)),
           !.created = (Cardinality(logsAfter)
                          > Cardinality(player_game_logs))]

\* the advanced columns a Basketball Reference record supplies
AdvancedOf(stats) ==
    [offensive_rating |-> stats.ortg,
     defensive_rating |-> stats.drtg,
     net_rating |-> stats.net_rtg,
     effective_fg_percentage |-> stats.efg_pct,
     true_shooting_percentage |-> stats.ts_pct,
     usage_percentage |-> stats.usg_pct]

\* the stored advanced row agrees with rec on every column rec supplies
HoldsAdvanced(a, rec) == \A col \in DOMAIN rec : a[col] = rec[col]

\* history of the advanced half of a step: the game log the advanced
\* record was written for, whether that game log had an advanced row
\* already (adv_had) and with other values (adv_changed), and the record
WithAdvanced(step, game_log_id, rec) ==
    LET old == {a \in advanced_box_scores : a.game_log_id = game_log_id}
    IN  [step EXCEPT
           !.adv_id = game_log_id,
           !.adv_had = (old # {}),
           !.adv_changed = (\E a \in old : ~HoldsAdvanced(a, rec)),
           !.adv_rec = rec]

\* one player's lines of one box-score page pass through
\* fetch_all_stats_for_game and the insert loop of process_date
BrefAllStats(row, target_date) ==
    LET season_string == get_season_string(target_date)
        stats == fetch_all_stats_for_game(row)
        zero == ZeroActivity(parse_minutes(row.cells.MP),
                             parse_int(row.cells.PTS))
    IN  IF DidNotPlay(row)
        THEN /\ last' = Step("bref_html", 0, season_string, target_date, stats,
                             zero, TRUE, player_game_logs)
             /\ UNCHANGED <<players, player_game_logs, advanced_box_scores,
                            game_log_seq, rosters_pc, fetch, run, player_map, workers,
                            call>>
        ELSE \E pick \in PlayerPicks(players, stats.name) :
             LET d == IngestAllStats(Store, stats, target_date, season_string,
                                     pick)
             IN  /\ Room
                 /\ players' = d.players
                 /\ player_game_logs' = d.logs
                 /\ advanced_box_scores' = d.adv
                 /\ game_log_seq' = d.seq
                 /\ last' =
                      LET step == Step("bref_html", d.player_id,
                                       season_string, target_date, stats,
                                       zero, FALSE, d.logs)
                      IN  IF stats.ortg = Null THEN step
                          ELSE WithAdvanced(step, d.game_log_id,
                                            AdvancedOf(stats))
                 /\ UNCHANGED <<rosters_pc, fetch, run, player_map, workers, call>>

----------------------------------------------------------------------------
(* fetch_bref_yesterdays_games.py *)

\* fetch_box_scores_for_game: the stats entry of one basic-table line
fetch_box_scores_for_game(row) ==
    [name |-> row.name,
     team |-> TEAM_ABBR_MAP(row.team),
     opponent |-> TEAM_ABBR_MAP(row.other),
     min |-> round_minutes(parse_minutes(row.cells.MP)),
     pts |-> parse_int(row.cells.PTS),
     reb |-> parse_int(row.cells.TRB),
     ast |-> parse_int(row.cells.AST),
     stl |-> parse_int(row.cells.STL),
     blk |-> parse_int(row.cells.BLK)]

\* main, the body of "for stats in all_players_stats"
BrefYesterday(row, game_date) ==
    LET season_string == get_season_string(game_date)
        stats == fetch_box_scores_for_game(row)
        zero == ZeroActivity(parse_minutes(row.cells.MP),
                             parse_int(row.cells.PTS))
    IN  IF DidNotPlay(row)
        THEN /\ last' = Step("bref_html", 0, season_string, game_date,
                             stats, zero, TRUE, player_game_logs)
             /\ UNCHANGED <<players, player_game_logs, advanced_box_scores,
                            game_log_seq, rosters_pc, fetch, run, player_map, workers,
                            call>>
        ELSE \E pick \in PlayerPicks(players, stats.name) :
             LET r == get_or_create_player(players, stats.name, stats.team,
                                           pick)
                 g == UpsertGameLog(player_game_logs, game_log_seq,
                                    r.player_id, season_string, game_date,
                                    stats.opponent, stats)
             IN  /\ Room
                 /\ players' = r.players
                 /\ player_game_logs' = g.logs
                 /\ game_log_seq' = g.seq
                 /\ last' = Step("bref_html", r.player_id, season_string,
                                 game_date, stats, zero, FALSE, g.logs)
                 /\ UNCHANGED <<advanced_box_scores, rosters_pc, fetch, run, player_map, workers,
                   call>>

----------------------------------------------------------------------------
(* fetch_bref_advanced_stats.py *)

\* lines of a game's advanced table: an ordinary one, another game's
\* values, one with ORtg 0, one with empty cells, one with an unreadable
\* TS% cell
AdvCellsB == [has |-> TRUE, ORtg |-> Num(101000), DRtg |-> Num(109000),
              TS |-> Num(520), eFG |-> Num(500), USG |-> Num(21100)]
AdvCellsNoOffense == [has |-> TRUE, ORtg |-> Num(0), DRtg |-> Num(110000),
                      TS |-> Nan, eFG |-> Nan, USG |-> Num(12500)]
AdvCellsJunk == [has |-> TRUE, ORtg |-> Num(118000), DRtg |-> Num(104000),
                 TS |-> Junk, eFG |-> Num(410), USG |-> Num(33400)]

AdvancedLine(name, team, cells) == [name |-> name, team |-> team, adv |-> cells]

AdvancedLines ==
    {AdvancedLine(NamePlain, tm[1], c) :
        tm \in TeamPairs,
        c \in {AdvCellsA, AdvCellsB, AdvCellsNoOffense, AdvCellsBlank,
               AdvCellsJunk}}

\* fetch_advanced_box_score leaves the line out: float() of a percentage
\* cell raised, or "if ortg == 0 and drtg == 0: continue"
AdvancedLineSkipped(row) ==
    \/ \E c \in {row.adv.TS, row.adv.eFG, row.adv.USG} : c.k = "junk"
    \/ parse_rating(row.adv.ORtg) = 0 /\ parse_rating(row.adv.DRtg) = 0

\* fetch_advanced_box_score: the players_stats entry of a line
fetch_advanced_box_score(row) ==
    LET ortg == parse_rating(row.adv.ORtg)
        drtg == parse_rating(row.adv.DRtg)
    IN  [name |-> row.name,
         team |-> TEAM_ABBR_MAP(row.team),
         ts_pct |-> parse_pct(row.adv.TS) * 100,
         efg_pct |-> parse_pct(row.adv.eFG) * 100,
         ortg |-> ortg,
         drtg |-> drtg,
         net_rtg |-> IF ortg # 0 /\ drtg # 0 THEN ortg - drtg ELSE 0,
         usg_pct |-> parse_pct(row.adv.USG)]

\* a faulty lookup: a line without a stored game log gets the next id
GetGameLogIdGuessed(pl, logs, player_name, game_date, season_string) ==
    LET found == {g.game_log_id : g \in
                    {h \in logs :
                       /\ h.game_date = game_date
                       /\ h.season = season_string
                       /\ \E p \in pl : /\ p.player_id = h.player_id
                                        /\ p.full_name = player_name}}
    IN  IF found = {} THEN {MaxOf({g.game_log_id : g \in logs}) + 1}
        ELSE found

\* get_game_log_id: the join of player_game_logs and players on the name,
\* the date and the season; fetchone() returns any of the rows found
get_game_log_id(pl, logs, player_name, game_date, season_string) ==
    LET found == {g.game_log_id : g \in
                    {h \in logs :
                       /\ h.game_date = game_date
                       /\ h.season = season_string
                       /\ \E p \in pl : /\ p.player_id = h.player_id
                                        /\ p.full_name = player_name}}
    IN  IF found = {} THEN {NoMatch} ELSE found

\* process_date, the body of "for stats in players_stats"; dry_run is what
\* TEST_MODE makes of it
BrefAdvanced(row, target_date, dry_run) ==
    LET season_string == get_season_string(target_date)
        stats == fetch_advanced_box_score(row)
    IN  /\ UNCHANGED <<players, player_game_logs, game_log_seq, rosters_pc, fetch, run,
                       player_map, workers, call>>
        /\ IF dry_run \/ AdvancedLineSkipped(row)
           THEN /\ last' = [NoStep EXCEPT !.op = "bref_advanced",
                                          !.filtered = TRUE]
                /\ UNCHANGED advanced_box_scores
           ELSE \E game_log_id \in get_game_log_id(players, player_game_logs,
                                      stats.name, target_date, season_string) :
                IF game_log_id = NoMatch
                THEN /\ last' = [NoStep EXCEPT !.op = "bref_advanced",
                                               !.rows = 1, !.unmatched = 1]
                     /\ UNCHANGED advanced_box_scores
                ELSE /\ advanced_box_scores' =
                          UpsertAdvanced(advanced_box_scores, game_log_id,
                                         stats)
                     /\ last' = WithAdvanced(
                                    [NoStep EXCEPT
                                       !.op = "bref_advanced",
                                       !.rows = 1,
                                       !.inserted = 1,
                                       !.added =
                                          Cardinality(advanced_box_scores')
                                          - Cardinality(advanced_box_scores)],
                                    game_log_id, AdvancedOf(stats))

----------------------------------------------------------------------------
(* fetch_bref_rosters_and_logs.py *)

\* team_enum_to_abbr over the Team members that occur
team_enum_to_abbr(team_enum) ==
    CASE team_enum = "GOLDEN STATE WARRIORS" -> "GSW"
      [] team_enum = "PHOENIX SUNS" -> "PHX"
      [] OTHER -> "None"

\* Python "x or 0"
Or0(x) == IF x = Null THEN 0 ELSE x

calculate_points(box) ==
    Or0(box.made_field_goals) * 2 + Or0(box.made_three_point_field_goals)
        + Or0(box.made_free_throws)

calculate_rebounds(box) ==
    Or0(box.offensive_rebounds) + Or0(box.defensive_rebounds)

\* the stats computed for one box score in main
BoxStats(box) ==
    [opponent |-> team_enum_to_abbr(box.opponent),
     min |-> round_minutes(Or0(box.seconds_played) * 1000),
     pts |-> calculate_points(box),
     reb |-> calculate_rebounds(box),
     ast |-> Or0(box.assists),
     stl |-> Or0(box.steals),
     blk |-> Or0(box.blocks)]

BoxLine(name, team, opponent, secs, fg, tp, ft, orb, drb, ast, stl, blk) ==
    [name |-> name, team |-> team, opponent |-> opponent,
     seconds_played |-> secs, made_field_goals |-> fg,
     made_three_point_field_goals |-> tp, made_free_throws |-> ft,
     offensive_rebounds |-> orb, defensive_rebounds |-> drb,
     assists |-> ast, steals |-> stl, blocks |-> blk]

EnumPairs == {<<"PHOENIX SUNS", "GOLDEN STATE WARRIORS">>}

\* player box scores as client.player_box_scores returns them
Boxes ==
    {BoxLine(n, tm[1], tm[2], 2130, 10, 4, 4, 1, 3, 6, 1, Null) :
        n \in PlayerNames, tm \in EnumPairs}
    \cup
    {BoxLine(n, tm[1], tm[2], Null, 0, 0, 0, 0, 0, 0, 0, 0) :
        n \in PlayerNames, tm \in EnumPairs}

MapPut(m, k, v) == [x \in DOMAIN m \cup {k} |-> IF x = k THEN v ELSE m[x]]

\* season totals as client.players_season_totals returns them: one entry
\* per player and team
SeasonTotals ==
    {<<>>, <<[name |-> NamePlain, team |-> "PHOENIX SUNS"]>>}

\* step 1 on a store record st = [players, map]: the body of
\* "for player in season_totals"; pickRow(pl, name) is fetchone()'s row
RECURSIVE TotalsLoop(_, _, _)
TotalsLoop(st, totals, pickLow) ==
    IF totals = <<>> THEN st
    ELSE LET player == Head(totals)
             found == PlayerPicks(st.players, player.name)
             row == CHOOSE p \in found :
                      \A q \in found :
                         IF pickLow THEN p.player_id <= q.player_id
                         ELSE p.player_id >= q.player_id
             r == get_or_create_player(st.players, player.name,
                                       team_enum_to_abbr(player.team), row)
         IN  TotalsLoop([players |-> r.players,
                         map |-> MapPut(st.map, player.name, r.player_id)],
                        Tail(totals), pickLow)

\* main starts: player_map = {}, step 1 runs over season_totals and commits
RostersTotals(season_totals) ==
    /\ rosters_pc = "idle"
    /\ \E pickLow \in BOOLEAN :
          LET st == TotalsLoop([players |-> players, map |-> <<>>],
                               season_totals, pickLow)
          IN  /\ players' = st.players
              /\ player_map' = st.map
    /\ rosters_pc' = "boxes"
    /\ UNCHANGED <<player_game_logs, advanced_box_scores, game_log_seq, last,
                   workers, fetch, run, call>>

\* step 2, the body of "for box in box_scores"
RostersBox(box, current_date) ==
    LET season_string == get_season_string(current_date)
        stats == BoxStats(box)
        zero == ZeroActivity(stats.min, stats.pts)
    IN  /\ rosters_pc = "boxes"
        /\ \E pick \in PlayerPicks(players, box.name) :
              LET known == box.name \in DOMAIN player_map
                  r == IF known
                       THEN [players |-> players,
                             player_id |-> player_map[box.name]]
                       ELSE get_or_create_player(players, box.name,
                                team_enum_to_abbr(box.team), pick)
                  g == UpsertGameLog(player_game_logs, game_log_seq,
                                     r.player_id, season_string, current_date,
                                     stats.opponent, stats)
              IN  /\ Room
                  /\ players' = r.players
                  /\ player_map' = IF known THEN player_map
                                   ELSE MapPut(player_map, box.name,
                                               r.player_id)
                  /\ player_game_logs' = g.logs
                  /\ game_log_seq' = g.seq
                  /\ last' = Step("bref_backfill", r.player_id, season_string,
                                  current_date, stats, zero, FALSE, g.logs)
        /\ UNCHANGED <<advanced_box_scores, rosters_pc, fetch, run, workers, call>>

\* the date loop is over: main returns
RostersEnd ==
    /\ rosters_pc = "boxes"
    /\ rosters_pc' = "idle"
    /\ player_map' = <<>>
    /\ UNCHANGED <<players, player_game_logs, advanced_box_scores,
                   game_log_seq, last, workers, fetch, run, call>>

----------------------------------------------------------------------------
(* fetch_todays_stats.py, fetch_team_rosters_and_logs.py,                     *)
(* fetch_yesterdays_games.py: the stats-API scripts                          *)

\* SEASON = "2025-26"
SEASON == <<2025, 26>>

\* player ids the stats API hands out
SourceIds == {2}

\* team abbreviations of the static team list / the teams table
ApiTeams == {"PHX"}

\* a GAME_DATE value: its encoding and the day it denotes
RawDate(fmt, d) == [fmt |-> fmt, d |-> d]
NoDate == [year |-> 0, month |-> 0, day |-> 0]

\* the ValueError datetime.fromisoformat raises, which nothing in
\* fetch_player_game_logs handles
DateValueError == [year |-> 0 - 1, month |-> 0, day |-> 0]

\* fetch_player_game_logs: strptime "%b %d, %Y", else fromisoformat of the
\* value without "Z"
ParseLogDate(raw) ==
    CASE raw.fmt = "bdY" -> raw.d
      [] raw.fmt = "iso" -> raw.d
      [] raw.fmt = "isoT" -> raw.d
      [] OTHER -> DateValueError

\* parse_opponent: the last token of MATCHUP
parse_opponent(matchup) ==
    IF matchup = <<>> THEN "None" ELSE matchup[Len(matchup)]

ApiLog(raw_date, matchup, mn, pts, reb, ast, stl, blk) ==
    [GAME_DATE |-> raw_date, MATCHUP |-> matchup, MIN |-> mn, PTS |-> pts,
     REB |-> reb, AST |-> ast, STL |-> stl, BLK |-> blk]

\* rows of the PlayerGameLogs data frame
ApiLogs ==
    {ApiLog(RawDate("bdY", d), m, 35500, 28, 4, 6, 1, Null) :
        d \in Dates, m \in {<<"GSW", "vs.", "PHX">>}}
    \cup
    {ApiLog(RawDate("isoT", d), m, Null, 0, 0, 0, 0, 0) :
        d \in Dates, m \in {<<"PHX", "@", "GSW">>}}

\* fetch_player_game_logs: the game_logs entry built from a row
ApiGameLog(row) ==
    [game_date |-> ParseLogDate(row.GAME_DATE),
     opponent |-> parse_opponent(row.MATCHUP),
     min |-> round_minutes(Or0(row.MIN) * 60),
     pts |-> Or0(row.PTS), reb |-> Or0(row.REB), ast |-> Or0(row.AST),
     stl |-> Or0(row.STL), blk |-> Or0(row.BLK)]

\* a faulty insert: no ON CONFLICT clause and no unique key to stop it
InsertGameLogPlain(logs, seq, pid, season, log) ==
    [logs |-> logs \cup {NewLog(seq, pid, season, log.game_date,
                                log.opponent, log)},
     seq |-> seq + 1, rowcount |-> 1]

\* INSERT ... ON CONFLICT (player_id, season, game_date) DO NOTHING
InsertGameLogDoNothing(logs, seq, pid, season, log) ==
    LET hitRows == LogsAt(logs, pid, season, log.game_date)
    IN  IF hitRows # {}
        THEN [logs |-> logs, seq |-> seq + 1, rowcount |-> 0]
        ELSE [logs |-> logs \cup {NewLog(seq, pid, season, log.game_date,
                                         log.opponent, log)},
              seq |-> seq + 1, rowcount |-> 1]

\* ensure_player_exists: INSERT ... ON CONFLICT (player_id) DO UPDATE
ensure_player_exists(pl, player_id, player_name, team_abbr) ==
    LET new == [player_id |-> player_id, full_name |-> player_name,
                team_abbreviation |-> team_abbr, headshot_url |-> player_id]
    IN  IF \E p \in pl : p.player_id = player_id
        THEN {IF p.player_id = player_id THEN new ELSE p : p \in pl}
        ELSE pl \cup {new}

\* fetch_todays_stats.main, the body of "for log in logs" for a player of
\* the top_players query
TodaysStats(player_id, row) ==
    LET log == ApiGameLog(row)
        g == InsertGameLogDoNothing(player_game_logs, game_log_seq, player_id,
                                    SEASON, log)
    IN  /\ \E p \in players : p.player_id = player_id
        /\ Room
        /\ player_game_logs' = g.logs
        /\ game_log_seq' = g.seq
        /\ last' = Step("stats_api", player_id, SEASON, log.game_date, log,
                        ZeroActivity(log.min, log.pts), FALSE, g.logs)
        /\ UNCHANGED <<players, advanced_box_scores, rosters_pc, fetch, run, player_map, workers,
                   call>>

\* fetch_team_rosters_and_logs.main, the body of
\* "for player_id in sorted(player_map.keys())" for a player with one
\* fetched log row: ensure_player_exists, then the insert
TeamRosters(player_id, player_name, team_abbr, row) ==
    LET log == ApiGameLog(row)
        g == InsertGameLogDoNothing(player_game_logs, game_log_seq, player_id,
                                    SEASON, log)
    IN  /\ Room
        /\ players' = ensure_player_exists(players, player_id, player_name,
                                           team_abbr)
        /\ player_game_logs' = g.logs
        /\ game_log_seq' = g.seq
        /\ last' = Step("stats_api", player_id, SEASON, log.game_date, log,
                        ZeroActivity(log.min, log.pts), FALSE, g.logs)
        /\ UNCHANGED <<advanced_box_scores, rosters_pc, fetch, run, player_map, workers,
                   call>>

\* parse_game_date: None for a falsy value, else strptime "%b %d, %Y",
\* else fromisoformat without "Z" and "T00:00:00", else pd.Timestamp,
\* else None (NoDate)
parse_game_date(raw_value) ==
    CASE raw_value.fmt = "empty" -> NoDate
      [] raw_value.fmt = "bdY" -> raw_value.d
      [] raw_value.fmt = "iso" -> raw_value.d
      [] raw_value.fmt = "isoT" -> raw_value.d
      [] raw_value.fmt = "ts" -> raw_value.d
      [] OTHER -> NoDate

\* to_float: float(value), None on TypeError and ValueError; "inf" and
\* "nan" read as floats
to_float(value) ==
    CASE value.k = "num" -> value.a
      [] value.k = "inf" -> PosInf
      [] value.k \in {"nan", "nantext"} -> NotANumber
      [] OTHER -> Null

\* Python round(x, 1) of a value held in thousandths: ties to even
round_tenth(x) ==
    LET q == x \div 100
        r == x % 100
    IN  IF 2 * r < 100 THEN q * 100
        ELSE IF 2 * r > 100 THEN (q + 1) * 100
        ELSE IF q % 2 = 0 THEN q * 100 ELSE (q + 1) * 100

\* get_pct_as_whole: round(val * 100, 1), None stays None
get_pct_as_whole(val) == IF val = Null THEN Null ELSE round_tenth(val * 100)

\* extract_advanced_stats / extract_advanced_stats_from_row
extract_advanced_stats(row) ==
    [offensive_rating |-> row.OFF_RATING,
     defensive_rating |-> row.DEF_RATING,
     net_rating |-> row.NET_RATING,
     effective_fg_percentage |-> get_pct_as_whole(row.EFG_PCT),
     true_shooting_percentage |-> get_pct_as_whole(row.TS_PCT),
     usage_percentage |-> get_pct_as_whole(row.USG_PCT),
     pace |-> row.PACE,
     player_impact_estimate |-> get_pct_as_whole(row.PIE)]

\* insert_advanced_stats: INSERT ... ON CONFLICT (game_log_id) DO NOTHING
insert_advanced_stats(adv, game_log_id, stats) ==
    IF \E a \in adv : a.game_log_id = game_log_id THEN adv
    ELSE adv \cup {[game_log_id |-> game_log_id] @@ stats}

\* a row of the "Advanced" PlayerGameLogs data frame
AdvApiRow(raw_date, game_id, ortg, drtg, net, efg, ts, usg, pace, pie) ==
    [GAME_DATE |-> raw_date, GAME_ID |-> game_id, OFF_RATING |-> ortg,
     DEF_RATING |-> drtg, NET_RATING |-> net, EFG_PCT |-> efg, TS_PCT |-> ts,
     USG_PCT |-> usg, PACE |-> pace, PIE |-> pie]

\* fetch_player_game_log_for_date: the first row of the frame whose parsed
\* GAME_DATE is the target date, as a sequence of at most one game log
RECURSIVE fetch_player_game_log_for_date(_, _)
fetch_player_game_log_for_date(df, target_date) ==
    IF df = <<>> THEN <<>>
    ELSE IF parse_game_date(Head(df).GAME_DATE) = target_date
    THEN <<[ApiGameLog(Head(df)) EXCEPT
               !.game_date = parse_game_date(Head(df).GAME_DATE)]>>
    ELSE fetch_player_game_log_for_date(Tail(df), target_date)

\* fetch_player_advanced_for_date, likewise
RECURSIVE fetch_player_advanced_for_date(_, _)
fetch_player_advanced_for_date(df, target_date) ==
    IF df = <<>> THEN <<>>
    ELSE IF parse_game_date(Head(df).GAME_DATE) = target_date
    THEN <<extract_advanced_stats(Head(df))>>
    ELSE fetch_player_advanced_for_date(Tail(df), target_date)

\* fetch_yesterdays_games.insert_game_log: DO NOTHING ... RETURNING, then
\* the SELECT of the existing row's id
insert_game_log_yesterday(logs, seq, player_id, season, log) ==
    LET g == InsertGameLogDoNothing(logs, seq, player_id, season, log)
        rows == LogsAt(g.logs, player_id, season, log.game_date)
    IN  [logs |-> g.logs, seq |-> g.seq,
         game_log_id |-> (CHOOSE r \in rows : TRUE).game_log_id]

\* frames the stats API returns for one player
JunkDateLog == ApiLog(RawDate("junk", NoDate), <<"GSW", "vs.", "PHX">>,
                      35500, 28, 4, 6, 1, Null)
LogFrames == {<<>>} \cup {<<r>> : r \in ApiLogs \cup {JunkDateLog}}
AdvFrames ==
    {<<>>} \cup
    {<<AdvApiRow(RawDate("isoT", d), "0022500123", 118000, 104000, 13900,
                 410, 567, 334, 99500, 123)>> : d \in Dates}

\* fetch_yesterdays_games.main, the body of
\* "for player_id, player_name in roster"
YesterdaysGames(player_id, player_name, team_abbr, game_date, df, adv_df) ==
    LET fetched == fetch_player_game_log_for_date(df, game_date)
        advanced == fetch_player_advanced_for_date(adv_df, game_date)
    IN  /\ Room
        /\ players' = ensure_player_exists(players, player_id, player_name,
                                           team_abbr)
        /\ IF fetched = <<>>
           THEN /\ last' = [NoStep EXCEPT !.op = "stats_api",
                                          !.filtered = TRUE]
                /\ UNCHANGED <<player_game_logs, advanced_box_scores,
                               game_log_seq>>
           ELSE LET log == fetched[1]
                    g == insert_game_log_yesterday(player_game_logs,
                             game_log_seq, player_id, SEASON, log)
                IN  /\ player_game_logs' = g.logs
                    /\ game_log_seq' = g.seq
                    /\ advanced_box_scores' =
                          IF advanced = <<>> THEN advanced_box_scores
                          ELSE insert_advanced_stats(advanced_box_scores,
                                   g.game_log_id, advanced[1])
                    /\ last' =
                         LET step == Step("stats_api", player_id, SEASON,
                                          log.game_date, log,
                                          ZeroActivity(log.min, log.pts),
                                          FALSE, g.logs)
                         IN  IF advanced = <<>> THEN step
                             ELSE WithAdvanced(step, g.game_log_id,
                                               advanced[1])
        /\ UNCHANGED <<rosters_pc, fetch, run, player_map, workers, call>>

----------------------------------------------------------------------------
(* Two scripts at once.  Every script opens its own connection             *)
(* (get_db_connection) and PostgreSQL runs its statements at READ          *)
(* COMMITTED: a statement sees the committed rows and the rows its own     *)
(* transaction wrote; a write to a row, or an insert on a unique key,      *)
(* that another open transaction has written waits for that transaction.   *)
(* A worker is one pass of a script's per-record loop body up to its       *)
(* conn.commit(): fetch_bref_yesterdays_games.main ("bref"),               *)
(* fetch_yesterdays_games.main with no advanced row for the date ("api"),  *)
(* fetch_todays_stats.main for a player of the top_players query           *)
(* ("todays"), fetch_bref_rosters_and_logs.main's date loop for a box      *)
(* score whose name is in player_map ("backfill").  The last two write no  *)
(* players row.                                                            *)

Workers == {1, 2}

Other(w) == 3 - w

Idle == [kind |-> "none", input |-> [name |-> NamePlain], game_date |-> NoDate,
         pc |-> "off", row |-> 0, player_id |-> 0, pl |-> {}, lg |-> {},
         waited |-> FALSE]

\* the rows a statement of worker w sees
VisiblePlayers(w) ==
    {p \in players : \A q \in workers[w].pl : q.player_id # p.player_id}
    \cup workers[w].pl

VisibleLogs(w) ==
    {g \in player_game_logs :
        \A h \in workers[w].lg : h.game_log_id # g.game_log_id}
    \cup workers[w].lg

\* the players row with this id has an uncommitted version of the other
\* connection: UPDATE ... WHERE player_id and INSERT of that id wait
PlayerRowBusy(w, id) ==
    \E q \in workers[Other(w)].pl : q.player_id = id

\* the scripts whose game-log statement is ON CONFLICT ... DO UPDATE
DoUpdateKinds == {"bref", "backfill"}

\* the season a worker files its game log under
WorkerSeason(w) ==
    IF workers[w].kind \in DoUpdateKinds
    THEN get_season_string(workers[w].game_date)
    ELSE SEASON

\* a store that does not arbitrate the key between open transactions
LogKeyNeverBusy(w, pid, season, game_date) == FALSE

\* ON CONFLICT (player_id, season, game_date): the unique index makes the
\* statement wait for an uncommitted row of the other connection at the
\* key; DO UPDATE waits for any uncommitted version (it locks the row),
\* DO NOTHING only for an uncommitted insert
LogKeyBusy(w, pid, season, game_date) ==
    \E g \in LogsAt(workers[Other(w)].lg, pid, season, game_date) :
        \/ workers[w].kind \in DoUpdateKinds
        \/ \A c \in player_game_logs : c.game_log_id # g.game_log_id

\* get_or_create_player: SELECT player_id FROM players WHERE full_name = %s
ConcSelect(w) ==
    LET me == workers[w]
    IN  /\ me.pc = "select"
        /\ \E pick \in PlayerPicks(VisiblePlayers(w), me.input.name) :
             workers' = [workers EXCEPT ![w].row = pick.player_id,
                                        ![w].pc = "resolve"]
        /\ UNCHANGED <<players, player_game_logs, advanced_box_scores,
                       game_log_seq, rosters_pc, fetch, run, player_map, last,
                       call>>

\* get_or_create_player after fetchone(): the UPDATE of the row found, or
\* the INSERT with MAX(player_id) + 1 of the statement's snapshot
ConcResolve(w) ==
    LET me == workers[w]
        vis == VisiblePlayers(w)
        stats == fetch_box_scores_for_game(me.input)
        found == IF me.row = 0 THEN NoPlayer
                 ELSE CHOOSE p \in vis : p.player_id = me.row
        r == get_or_create_player(vis, stats.name, stats.team, found)
        written == {p \in r.players : p.player_id = r.player_id}
    IN  /\ me.pc = "resolve"
        /\ IF me.row # 0
           THEN /\ ~PlayerRowBusy(w, me.row)
                /\ workers' = [workers EXCEPT ![w].pl = written,
                                              ![w].player_id = r.player_id,
                                              ![w].pc = "log"]
           ELSE IF PlayerRowBusy(w, r.player_id)
           THEN workers' = [workers EXCEPT ![w].row = r.player_id,
                                           ![w].pc = "blocked"]
           ELSE workers' = [workers EXCEPT ![w].pl = written,
                                           ![w].player_id = r.player_id,
                                           ![w].pc = "log"]
        /\ UNCHANGED <<players, player_game_logs, advanced_box_scores,
                       game_log_seq, rosters_pc, fetch, run, player_map, last,
                       call>>

\* the INSERT that waited on the other connection's row with the same
\* player_id: once that row is committed the primary key rejects the
\* insert and the script ends on the exception; had the other transaction
\* rolled back, the insert would go through
ConcUnblock(w) ==
    LET me == workers[w]
        stats == fetch_box_scores_for_game(me.input)
    IN  /\ me.pc = "blocked"
        /\ ~PlayerRowBusy(w, me.row)
        /\ IF \E p \in players : p.player_id = me.row
           THEN workers' = [workers EXCEPT ![w].pc = "failed"]
           ELSE workers' =
                  [workers EXCEPT
                     ![w].pl = {[player_id |-> me.row,
                                 full_name |-> stats.name,
                                 team_abbreviation |-> stats.team,
                                 headshot_url |-> Null]},
                     ![w].player_id = me.row,
                     ![w].pc = "log"]
        /\ UNCHANGED <<players, player_game_logs, advanced_box_scores,
                       game_log_seq, rosters_pc, fetch, run, player_map, last,
                       call>>

\* fetch_yesterdays_games.main: ensure_player_exists(conn, player_id, ...)
ConcEnsure(w) ==
    LET me == workers[w]
        pl == ensure_player_exists(VisiblePlayers(w), me.input.player_id,
                                   me.input.name, me.input.team)
    IN  /\ me.pc = "ensure"
        /\ ~PlayerRowBusy(w, me.input.player_id)
        /\ workers' =
             [workers EXCEPT
                ![w].pl = {p \in pl : p.player_id = me.input.player_id},
                ![w].player_id = me.input.player_id,
                ![w].pc = "log"]
        /\ UNCHANGED <<players, player_game_logs, advanced_box_scores,
                       game_log_seq, rosters_pc, fetch, run, player_map, last,
                       call>>

\* the game-log statement finds the key held by the other connection
ConcLogWait(w) ==
    LET me == workers[w]
        season == WorkerSeason(w)
    IN  /\ me.pc = "log"
        /\ ~me.waited
        /\ LogKeyBusy(w, me.player_id, season, me.game_date)
        /\ workers' = [workers EXCEPT ![w].waited = TRUE]
        /\ UNCHANGED <<players, player_game_logs, advanced_box_scores,
                       game_log_seq, rosters_pc, fetch, run, player_map, last,
                       call>>

\* the game-log statement of the script; the sequence behind game_log_id
\* is not transactional
ConcLog(w) ==
    LET me == workers[w]
        vis == VisibleLogs(w)
        season == WorkerSeason(w)
        stats == fetch_box_scores_for_game(me.input)
        box == BoxStats(me.input)
        fetched == fetch_player_game_log_for_date(<<me.input.log>>,
                                                  me.game_date)
        g == CASE me.kind = "bref" ->
                    UpsertGameLog(vis, game_log_seq, me.player_id, season,
                                  me.game_date, stats.opponent, stats)
               [] me.kind = "backfill" ->
                    UpsertGameLog(vis, game_log_seq, me.player_id, season,
                                  me.game_date, box.opponent, box)
               [] me.kind = "api" ->
                    insert_game_log_yesterday(vis, game_log_seq,
                                              me.player_id, SEASON,
                                              fetched[1])
               [] OTHER ->
                    InsertGameLogDoNothing(vis, game_log_seq, me.player_id,
                                           SEASON, ApiGameLog(me.input.log))
        written == IF me.kind \in DoUpdateKinds
                   THEN LogsAt(g.logs, me.player_id, season, me.game_date)
                   ELSE g.logs \ vis
    IN  /\ me.pc = "log"
        /\ ~LogKeyBusy(w, me.player_id, season, me.game_date)
        /\ game_log_seq' = g.seq
        /\ workers' = [workers EXCEPT ![w].lg = written,
                                      ![w].pc = "commit"]
        /\ UNCHANGED <<players, player_game_logs, advanced_box_scores,
                       rosters_pc, fetch, run, player_map, last, call>>

\* conn.commit()
ConcCommit(w) ==
    LET me == workers[w]
    IN  /\ me.pc = "commit"
        /\ players' = VisiblePlayers(w)
        /\ player_game_logs' = VisibleLogs(w)
        /\ workers' = [workers EXCEPT ![w].pl = {}, ![w].lg = {},
                                      ![w].pc = "done"]
        /\ UNCHANGED <<advanced_box_scores, game_log_seq, rosters_pc, fetch, run,
                       player_map, last, call>>

\* the record each worker is about to ingest
BrefWorker(row, d) ==
    [Idle EXCEPT !.kind = "bref", !.input = row, !.game_date = d,
                 !.pc = "select"]

ApiWorker(id, n, t, row, d) ==
    [Idle EXCEPT !.kind = "api",
                 !.input = [player_id |-> id, name |-> n, team |-> t,
                            log |-> row],
                 !.game_date = d, !.pc = "ensure"]

TodaysWorker(id, row) ==
    [Idle EXCEPT !.kind = "todays", !.input = [log |-> row],
                 !.game_date = ApiGameLog(row).game_date,
                 !.player_id = id, !.pc = "log"]

BackfillWorker(id, box, d) ==
    [Idle EXCEPT !.kind = "backfill", !.input = box, !.game_date = d,
                 !.player_id = id, !.pc = "log"]

StartWorkers(pl) ==
    {BrefWorker(row, d) : row \in {b \in BasicRows : ~DidNotPlay(b)},
                          d \in Dates}
    \cup
    {ApiWorker(id, NamePlain, t, row, d) :
        id \in SourceIds, t \in ApiTeams, row \in ApiLogs, d \in Dates}
    \cup
    {TodaysWorker(p.player_id, row) : p \in pl, row \in ApiLogs}
    \cup
    UNION {{BackfillWorker(p.player_id, box, d) :
               box \in {b \in Boxes : b.name = p.full_name}, d \in Dates} :
           p \in pl}

\* what earlier runs left in the store
SeededPlayers ==
    {[player_id |-> 1, full_name |-> NamePlain, team_abbreviation |-> "GSW",
      headshot_url |-> Null],
     [player_id |-> 2, full_name |-> NamePlain, team_abbreviation |-> "PHX",
      headshot_url |-> 2]}

InitConc ==
    /\ \E p \in SeededPlayers, d \in Dates :
         /\ players \in {{}, {p}}
         /\ player_game_logs \in
              {{}} \cup
              {{NewLog(1, q.player_id, SEASON, d, "PHX",
                       fetch_box_scores_for_game(
                           HtmlRow(NamePlain, "GSW", "PHO", LineA,
                                   NoAdvCells)))} : q \in players}
    /\ advanced_box_scores = {}
    /\ game_log_seq = 1 + Cardinality(player_game_logs)
    /\ rosters_pc = "idle"
    /\ fetch = NoFetch
    /\ run = NoRun
    /\ call = NoCall
    /\ player_map = <<>>
    /\ workers \in [Workers -> StartWorkers(players)]
    /\ last = NoStep

NextConc ==
    \E w \in Workers :
        \/ ConcSelect(w)
        \/ ConcResolve(w)
        \/ ConcUnblock(w)
        \/ ConcEnsure(w)
        \/ ConcLogWait(w)
        \/ ConcLog(w)
        \/ ConcCommit(w)

SpecConc == InitConc /\ [][NextConc]_vars

----------------------------------------------------------------------------
(* fetch_all_players_advanced_box_scores.py *)

\* get_game_log_lookup: game_date -> game_log_id and game_id -> game_log_id
\* over the player's rows of the season; a NULL or empty game_id is left out
PlayerSeasonLogs(logs, player_id, season) ==
    {g \in logs : g.player_id = player_id /\ g.season = season}

date_lookup(logs, player_id, season) ==
    LET rows == PlayerSeasonLogs(logs, player_id, season)
    IN  [d \in {g.game_date : g \in rows} |->
           (CHOOSE g \in rows : g.game_date = d).game_log_id]

game_id_lookup(logs, player_id, season) ==
    LET rows == {g \in PlayerSeasonLogs(logs, player_id, season) :
                    g.game_id # NullText /\ g.game_id # ""}
    IN  [k \in {g.game_id : g \in rows} |->
           (CHOOSE g \in rows : g.game_id = k).game_log_id]

\* get_existing_advanced_game_log_ids
get_existing_advanced_game_log_ids(logs, adv, player_id, season) ==
    {a.game_log_id : a \in {b \in adv :
        \E g \in PlayerSeasonLogs(logs, player_id, season) :
           g.game_log_id = b.game_log_id}}

\* the row's date cannot be parsed and it carries no usable game id
Undated(row) ==
    /\ parse_game_date(row.GAME_DATE) = NoDate
    /\ row.GAME_ID \in {NullText, ""}

\* a faulty matcher: the game-id key is tried before the date key
MatchGameIdFirst(row, dates, game_ids) ==
    LET parsed_date == parse_game_date(row.GAME_DATE)
    IN  IF row.GAME_ID # NullText /\ row.GAME_ID # ""
           /\ row.GAME_ID \in DOMAIN game_ids
        THEN game_ids[row.GAME_ID]
        ELSE IF parsed_date # NoDate /\ parsed_date \in DOMAIN dates
        THEN dates[parsed_date]
        ELSE NoMatch

\* main, "Match this row to a game_log_id": the date key first, the
\* game-id key only if the date key gave nothing.  GAME_ID = NullText
\* stands for a frame without a GAME_ID column.
MatchAdvancedRow(row, dates, game_ids) ==
    LET parsed_date == parse_game_date(row.GAME_DATE)
        by_date == IF parsed_date # NoDate /\ parsed_date \in DOMAIN dates
                   THEN dates[parsed_date] ELSE NoMatch
    IN  IF by_date # NoMatch THEN by_date
        ELSE IF row.GAME_ID # NullText /\ row.GAME_ID # ""
                /\ row.GAME_ID \in DOMAIN game_ids
        THEN game_ids[row.GAME_ID]
        ELSE NoMatch

\* a faulty row step: an unmatched row is stored under the player's latest
\* game log
AdvancedRowGuessed(st, row, dates, game_ids, existing_ids) ==
    LET game_log_id == MatchAdvancedRow(row, dates, game_ids)
        guess == MaxOf({dates[d] : d \in DOMAIN dates})
    IN  IF game_log_id = NoMatch
        THEN [st EXCEPT !.adv = insert_advanced_stats(st.adv, guess,
                                    extract_advanced_stats(row)),
                        !.inserted = @ + 1]
        ELSE IF game_log_id \in existing_ids
        THEN [st EXCEPT !.skipped = @ + 1]
        ELSE [st EXCEPT !.adv = insert_advanced_stats(st.adv, game_log_id,
                                    extract_advanced_stats(row)),
                        !.inserted = @ + 1]

\* main, the body of "for _, row in df.iterrows()" on
\* st = [adv, inserted, skipped, unmatched]
AdvancedRow(st, row, dates, game_ids, existing_ids) ==
    LET game_log_id == MatchAdvancedRow(row, dates, game_ids)
    IN  IF game_log_id = NoMatch
        THEN [st EXCEPT !.unmatched = @ + 1]
        ELSE IF game_log_id \in existing_ids
        THEN [st EXCEPT !.skipped = @ + 1]
        ELSE [st EXCEPT !.adv = insert_advanced_stats(st.adv, game_log_id,
                                    extract_advanced_stats(row)),
                        !.inserted = @ + 1]

RECURSIVE AdvancedRowsLoop(_, _, _, _, _)
AdvancedRowsLoop(st, df, dates, game_ids, existing_ids) ==
    IF df = <<>> THEN st
    ELSE AdvancedRowsLoop(AdvancedRow(st, Head(df), dates, game_ids,
                                      existing_ids),
                          Tail(df), dates, game_ids, existing_ids)

\* main, the body of "for player_id in sorted(player_map.keys())"
ProcessPlayerAdvanced(logs, adv, player_id, df) ==
    LET dates == date_lookup(logs, player_id, SEASON)
        game_ids == game_id_lookup(logs, player_id, SEASON)
        existing_ids == get_existing_advanced_game_log_ids(logs, adv,
                                                           player_id, SEASON)
        all_game_log_ids == {dates[d] : d \in DOMAIN dates}
                            \cup {game_ids[k] : k \in DOMAIN game_ids}
        st0 == [adv |-> adv, inserted |-> 0, skipped |-> 0, unmatched |-> 0,
                rows |-> 0, undated |-> 0]
    IN  IF DOMAIN dates = {} /\ DOMAIN game_ids = {} THEN st0
        ELSE IF all_game_log_ids \subseteq existing_ids THEN st0
        ELSE IF df = <<>> THEN st0
        ELSE [AdvancedRowsLoop(st0, df, dates, game_ids, existing_ids)
                EXCEPT !.rows = Len(df),
                       !.undated = Cardinality({i \in 1..Len(df) :
                                                  Undated(df[i])})]

\* the longest frame of advanced rows fetched for one player
MaxFrame == 2

\* a second game day and the source's game ids of the two days
DateB == [year |-> 2026, month |-> 1, day |-> 7]
GameIds == {"0022500501", "0022500517"}

\* GAME_DATE and GAME_ID cells of the "Advanced" PlayerGameLogs frame: the
\* date in one of the source's encodings, blank or unparseable; the game id
\* present (here the second day's) or not
AdvCells ==
    {<<RawDate("isoT", d), k>> : d \in Dates, k \in {"0022500517", NullText}}
    \cup
    {<<RawDate("bdY", DateB), NullText>>,
     <<RawDate("junk", NoDate), "0022500517">>,
     <<RawDate("junk", NoDate), NullText>>,
     <<RawDate("empty", NoDate), NullText>>}

AdvRows ==
    {AdvApiRow(c[1], c[2], 118000, 104000, 13900, 410, 567, 334, 99500, 123) :
        c \in AdvCells}

RECURSIVE FramesUpTo(_)
FramesUpTo(n) ==
    IF n = 0 THEN {<<>>}
    ELSE LET shorter == FramesUpTo(n - 1)
         IN  shorter \cup {Append(f, r) : f \in shorter, r \in AdvRows}

\* one player's turn in main: lookups, the fetched frame, the row loop
AdvancedBoxScores(player_id, df) ==
    \E r \in {ProcessPlayerAdvanced(player_game_logs, advanced_box_scores,
                                    player_id, df)} :
        /\ \E g \in player_game_logs : g.season = SEASON
        /\ advanced_box_scores' = r.adv
        /\ last' = [NoStep EXCEPT
                      !.op = "advanced", !.rows = r.rows,
                      !.undated = r.undated, !.inserted = r.inserted,
                      !.skipped = r.skipped, !.unmatched = r.unmatched,
                      !.added = Cardinality(r.adv)
                                  - Cardinality(advanced_box_scores)]
        /\ UNCHANGED <<players, player_game_logs, game_log_seq, rosters_pc, fetch, run,
                       player_map, workers, call>>

\* stores the run can start from: player 2 with a game log on neither, one
\* or both days, each with or without a recorded game_id and with or
\* without an advanced row
SeededLog(id, game_date, game_id) ==
    [NewLog(id, 2, SEASON, game_date, "GSW", NoStats) EXCEPT
        !.game_id = game_id]

SeededLogs ==
    {a \cup b :
       a \in {{}} \cup {{SeededLog(1, d, k)} :
                          d \in Dates, k \in {NullText, "0022500501"}},
       b \in {{}} \cup {{SeededLog(2, DateB, k)} :
                          k \in {NullText, "0022500517"}}}

SeededAdvanced(game_log_id) ==
    [game_log_id |-> game_log_id]
      @@ extract_advanced_stats(
           AdvApiRow(RawDate("empty", NoDate), NullText, 101000, 109000,
                     0 - 8000, 500, 520, 211, 97000, 90))

InitAdv ==
    /\ players = {[player_id |-> 2, full_name |-> NamePlain,
                   team_abbreviation |-> "PHX", headshot_url |-> 2]}
    /\ player_game_logs \in SeededLogs
    /\ advanced_box_scores \in
         {{SeededAdvanced(id) : id \in ids} :
            ids \in SUBSET {g.game_log_id : g \in player_game_logs}}
    /\ game_log_seq = 3
    /\ rosters_pc = "idle"
    /\ fetch = NoFetch
    /\ run = NoRun
    /\ call = NoCall
    /\ player_map = <<>>
    /\ workers = [w \in Workers |-> Idle]
    /\ last = NoStep

NextAdv ==
    \E id \in SourceIds, df \in FramesUpTo(MaxFrame) :
        AdvancedBoxScores(id, df)

SpecAdv == InitAdv /\ [][NextAdv]_vars


----------------------------------------------------------------------------
Init ==
    /\ players = {}
    /\ player_game_logs = {}
    /\ advanced_box_scores = {}
    /\ game_log_seq = 1
    /\ rosters_pc = "idle"
    /\ fetch = NoFetch
    /\ run = NoRun
    /\ call = NoCall
    /\ player_map = <<>>
    /\ workers = [w \in Workers |-> Idle]
    /\ last = NoStep

NextBref ==
    \/ \E row \in BrefRows, d \in Dates : BrefAllStats(row, d)
    \/ \E row \in BasicRows, d \in Dates : BrefYesterday(row, d)
    \/ \E totals \in SeasonTotals : RostersTotals(totals)
    \/ \E box \in Boxes, d \in Dates : RostersBox(box, d)
    \/ RostersEnd

SpecBref == Init /\ [][NextBref]_vars

NextApi ==
    \/ \E id \in SourceIds \cup {1}, row \in ApiLogs : TodaysStats(id, row)
    \/ \E id \in SourceIds, n \in PlayerNames, t \in ApiTeams,
          row \in ApiLogs : TeamRosters(id, n, t, row)
    \/ \E id \in SourceIds, n \in {NameAccent}, t \in ApiTeams, d \in Dates,
          df \in LogFrames, adv_df \in AdvFrames :
            YesterdaysGames(id, n, t, d, df, adv_df)

Next == NextBref \/ NextApi

\* the scripts that write advanced_box_scores, from an empty store
NextWriters ==
    \/ \E row \in BrefRows, d \in Dates : BrefAllStats(row, d)
    \/ \E row \in AdvancedLines, d \in Dates, dry_run \in BOOLEAN :
          BrefAdvanced(row, d, dry_run)
    \/ \E id \in SourceIds, n \in {NamePlain}, t \in ApiTeams, d \in Dates,
          df \in LogFrames, adv_df \in AdvFrames :
            YesterdaysGames(id, n, t, d, df, adv_df)
    \/ \E id \in SourceIds, df \in FramesUpTo(1) :
          AdvancedBoxScores(id, df)

SpecWriters == Init /\ [][NextWriters]_vars

Spec == Init /\ [][Next]_vars

----------------------------------------------------------------------------
(* The retry loops of the stats-API scripts: "for attempt in range(1,       *)
(* MAX_RETRIES + 1)" around one call of the nba_api endpoint                 *)

\* MAX_RETRIES of fetch_all_players_advanced_box_scores.py and of
\* fetch_team_rosters_and_logs.py
MAX_RETRIES == 3

\* NBA_API_RETRIES of fetch_todays_stats.py
NBA_API_RETRIES == 3

\* MAX_RETRIES of fetch_yesterdays_games.py
MAX_RETRIES_YESTERDAYS == 5

\* the seven retry loops: the script, the function, the number of attempts,
\* whether the loop has the "except TypeError" clause that repeats the call
\* with the _nullable argument names, how the sleep grows, and whether the
\* function sleeps before its first attempt
RetryLoops ==
    {[script |-> "fetch_all_players_advanced_box_scores",
      fn |-> "fetch_team_players", max_attempts |-> MAX_RETRIES,
      fallback |-> TRUE, backoff |-> "linear", initial |-> FALSE],
     [script |-> "fetch_all_players_advanced_box_scores",
      fn |-> "fetch_player_advanced_game_logs", max_attempts |-> MAX_RETRIES,
      fallback |-> FALSE, backoff |-> "linear", initial |-> FALSE],
     [script |-> "fetch_team_rosters_and_logs",
      fn |-> "fetch_team_players", max_attempts |-> MAX_RETRIES,
      fallback |-> TRUE, backoff |-> "linear", initial |-> FALSE],
     [script |-> "fetch_todays_stats",
      fn |-> "fetch_player_game_logs", max_attempts |-> NBA_API_RETRIES,
      fallback |-> FALSE, backoff |-> "linear", initial |-> FALSE],
     [script |-> "fetch_yesterdays_games",
      fn |-> "fetch_team_players", max_attempts |-> MAX_RETRIES_YESTERDAYS,
      fallback |-> TRUE, backoff |-> "exponential", initial |-> TRUE],
     [script |-> "fetch_yesterdays_games",
      fn |-> "fetch_player_game_log_for_date",
      max_attempts |-> MAX_RETRIES_YESTERDAYS,
      fallback |-> FALSE, backoff |-> "linear", initial |-> FALSE],
     [script |-> "fetch_yesterdays_games",
      fn |-> "fetch_player_advanced_for_date",
      max_attempts |-> MAX_RETRIES_YESTERDAYS,
      fallback |-> FALSE, backoff |-> "linear", initial |-> FALSE]}

\* the loop a fetch state belongs to
LoopOf(f) == CHOOSE l \in RetryLoops : l.script = f.script /\ l.fn = f.fn

\* what one call of the endpoint can do: return rows, return an empty frame,
\* raise TypeError, raise anything else (a timeout, a connection reset)
Outcomes == {"data", "empty", "TypeError", "Exception"}

Succeeds(outcome) == outcome \in {"data", "empty"}

\* samples of random.randint(0, 500), in milliseconds
JitterMs == {0, 250, 500}

\* samples of random.uniform(1, 3), in milliseconds
JitterSecs == {1000, 2000, 3000}

\* samples of random.uniform(2, 4), in milliseconds: the sleep of
\* fetch_yesterdays_games.fetch_team_players before its first attempt
InitialSecs == {2000, 3000, 4000}

\* the jitters a loop draws from
Jitters(loop) == IF loop.backoff = "linear" THEN JitterMs ELSE JitterSecs

\* a sleep that does not grow with the attempt number
FixedSleepMs(attempt, jitter) == 1000 + jitter

\* sleep_ms = 1000 * attempt + random.randint(0, 500)
LinearSleepMs(attempt, jitter) == 1000 * attempt + jitter

\* sleep_secs = (2 ** attempt) + random.uniform(1, 3), in milliseconds
ExponentialSleepMs(attempt, jitter) == 1000 * (2 ^ attempt) + jitter

\* the sleep of a loop after its attempt failed
SleepMs(loop, attempt, jitter) ==
    IF loop.backoff = "linear" THEN LinearSleepMs(attempt, jitter)
    ELSE ExponentialSleepMs(attempt, jitter)

\* the fetch under way has left its loop
FetchDone == fetch.pc \in {"returned", "raised"}

\* the fetch when the function is entered: the loop variable is 1, nothing
\* was requested, and fetch_yesterdays_games.fetch_team_players has slept
Begun(loop, initial) ==
    [script |-> loop.script, fn |-> loop.fn, pc |-> "call",
     attempt |-> 1, calls |-> 0, failed |-> 0, fallbacks |-> 0,
     naps |-> IF loop.initial THEN 1 ELSE 0,
     nap |-> IF loop.initial THEN [after |-> 0, ms |-> initial] ELSE NoNap,
     result |-> "none"]

\* the function is called on its own
FetchBegin(loop) ==
    /\ fetch.pc \in {"idle", "returned", "raised"}
    /\ run = NoRun
    /\ \E initial \in InitialSecs : fetch' = Begun(loop, initial)
    /\ UNCHANGED <<players, player_game_logs, advanced_box_scores,
                   game_log_seq, rosters_pc, player_map, workers, last, run,
                   call>>

\* a handler that sleeps before it looks at the attempt number
AfterFailureSleepsFirst(f, loop, jitter) ==
    [f EXCEPT !.pc = IF f.attempt = loop.max_attempts
                     THEN "raised" ELSE "call",
              !.attempt = IF f.attempt = loop.max_attempts
                          THEN f.attempt ELSE f.attempt + 1,
              !.naps = f.naps + 1,
              !.nap = [after |-> f.attempt,
                       ms |-> SleepMs(loop, f.attempt, jitter)]]

\* the fetch after the handler of a failed call: the last attempt re-raises,
\* any other sleeps and goes round the loop
AfterFailure(f, loop, jitter) ==
    IF f.attempt = loop.max_attempts
    THEN [f EXCEPT !.pc = "raised"]
    ELSE [f EXCEPT !.pc = "call", !.attempt = f.attempt + 1,
                   !.naps = f.naps + 1,
                   !.nap = [after |-> f.attempt,
                            ms |-> SleepMs(loop, f.attempt, jitter)]]

\* the fetch after the "except TypeError" clause, whose body is the second
\* call: its result leaves the loop, and an exception raised there is
\* outside the try block, so no clause of that try handles it
AfterTypeError(f, second) ==
    IF Succeeds(second)
    THEN [f EXCEPT !.pc = "returned", !.calls = f.calls + 1,
                   !.fallbacks = f.fallbacks + 1, !.result = second]
    ELSE [f EXCEPT !.pc = "raised", !.calls = f.calls + 1,
                   !.fallbacks = f.fallbacks + 1, !.failed = f.failed + 1]

\* one pass of the loop body: the call, and the clause its outcome selects
Attempt(f, loop, outcome, second, jitter) ==
    LET called == [f EXCEPT !.calls = f.calls + 1]
        failure == [called EXCEPT !.failed = f.failed + 1]
    IN  IF Succeeds(outcome)
        THEN [called EXCEPT !.pc = "returned", !.result = outcome]
        ELSE IF outcome = "TypeError" /\ loop.fallback
             THEN AfterTypeError(failure, second)
             ELSE AfterFailure(failure, loop, jitter)

\* one pass of the loop of the fetch under way
FetchAttempt(outcome, second, jitter) ==
    /\ fetch.pc = "call"
    /\ jitter \in Jitters(LoopOf(fetch))
    /\ fetch' = Attempt(fetch, LoopOf(fetch), outcome, second, jitter)
    /\ UNCHANGED <<players, player_game_logs, advanced_box_scores,
                   game_log_seq, rosters_pc, player_map, workers, last, run,
                   call>>

NextFetch ==
    \/ \E loop \in RetryLoops : FetchBegin(loop)
    \/ \E outcome \in Outcomes, second \in Outcomes,
          jitter \in JitterMs \cup JitterSecs :
            FetchAttempt(outcome, second, jitter)

SpecFetch == Init /\ [][NextFetch]_vars

----------------------------------------------------------------------------
(* The main loops: requests, delays, statements and commits of one run      *)

\* most games get_games_on_date finds on a date
MaxGames == 2

\* the dates of a season backfill: season_start to end_date
RunDates == <<[year |-> 2026, month |-> 1, day |-> 5],
              [year |-> 2026, month |-> 1, day |-> 6]>>

\* the player lines fetch_all_stats_for_game finds on a page: none (an
\* error, or a page without tables), one, or two
RunPages ==
    {<<>>,
     <<HtmlRow(NamePlain, "GSW", "PHO", LineA, AdvCellsA)>>,
     <<HtmlRow(NamePlain, "GSW", "PHO", LineA, AdvCellsA),
       HtmlRow(NameAccent, "GSW", "PHO", LineA, NoAdvCells)>>}

\* the tables of the connection
OpenTables == [players |-> players, logs |-> player_game_logs,
               adv |-> advanced_box_scores]

\* random_delay: time.sleep(random.uniform(min, max))
Delayed(r) == [r EXCEPT !.polite = TRUE]

\* a request of a new operation: it is rude when a request was made before
\* and no random_delay was taken since
Requested(r) ==
    [r EXCEPT !.rude = r.rude \/ (r.called /\ ~r.polite),
              !.called = TRUE, !.polite = FALSE]

\* a run of script that has just opened its connection
Started(script) ==
    [NoRun EXCEPT !.script = script, !.committed = OpenTables]

\* process_date has returned: main commits and moves to the next date; after
\* the last date the with block commits and closes
NextDate(r, tables) ==
    [r EXCEPT !.dates = Tail(r.dates), !.games = 0, !.pending = <<>>,
              !.committed = tables,
              !.pc = IF Tail(r.dates) = <<>> THEN "done" ELSE "date"]

\* an exception leaves main: the with block rolls the transaction back
Aborted(r) == [r EXCEPT !.pc = "aborted", !.failed = TRUE, !.pending = <<>>]

\* fetch_bref_all_stats.main with TEST_MODE False: the connection is open
\* and current_date is season_start
BrefRunStart ==
    /\ run.pc \in {"idle", "done", "aborted"}
    /\ run' = [Started("fetch_bref_all_stats") EXCEPT
                 !.pc = "date", !.dates = RunDates]
    /\ UNCHANGED <<players, player_game_logs, advanced_box_scores,
                   game_log_seq, rosters_pc, player_map, workers, last,
                   fetch, call>>

\* process_date up to its loop: get_games_on_date requests the date's page
\* and finds games home teams (none also when the request raised)
BrefRunGames(games) ==
    /\ run.script = "fetch_bref_all_stats"
    /\ run.pc = "date"
    /\ run' = IF games = 0
              THEN NextDate(Requested(run), OpenTables)
              ELSE [Requested(run) EXCEPT !.pc = "game", !.games = games]
    /\ UNCHANGED <<players, player_game_logs, advanced_box_scores,
                   game_log_seq, rosters_pc, player_map, workers, last,
                   fetch, call>>

\* the body of "for home_team in home_teams": random_delay(3, 5), then
\* fetch_all_stats_for_game requests the page; after the last game
\* process_date returns when all_players_stats is empty
BrefRunPage(page) ==
    LET r == Requested(Delayed(run))
        stats == run.pending \o page
    IN  /\ run.script = "fetch_bref_all_stats"
        /\ run.pc = "game"
        /\ run' = IF run.games > 1
                  THEN [r EXCEPT !.games = run.games - 1, !.pending = stats]
                  ELSE IF stats = <<>> THEN NextDate(r, OpenTables)
                  ELSE [r EXCEPT !.games = 0, !.pending = stats,
                                 !.pc = "write"]
        /\ UNCHANGED <<players, player_game_logs, advanced_box_scores,
                       game_log_seq, rosters_pc, player_map, workers, last,
                       fetch, call>>

\* the body of "for stats in all_players_stats": get_or_create_player,
\* insert_game_log, upsert_advanced_stats, none of them in a try block; a
\* statement that raises ends main, and after the last record main commits
BrefRunWrite(raises) ==
    LET row == Head(run.pending)
        stats == fetch_all_stats_for_game(row)
        target_date == Head(run.dates)
        season_string == get_season_string(target_date)
    IN  /\ run.script = "fetch_bref_all_stats"
        /\ run.pc = "write"
        /\ IF raises
           THEN /\ run' = Aborted(run)
                /\ players' = run.committed.players
                /\ player_game_logs' = run.committed.logs
                /\ advanced_box_scores' = run.committed.adv
                /\ UNCHANGED game_log_seq
           ELSE \E pick \in PlayerPicks(players, stats.name) :
                LET d == IngestAllStats(Store, stats, target_date,
                                        season_string, pick)
                    written == [run EXCEPT
                                  !.pending = Tail(run.pending),
                                  !.ingested = run.ingested \cup
                                      {[name |-> stats.name,
                                        game_date |-> target_date]}]
                    tables == [players |-> d.players, logs |-> d.logs,
                               adv |-> d.adv]
                IN  /\ Room
                    /\ players' = d.players
                    /\ player_game_logs' = d.logs
                    /\ advanced_box_scores' = d.adv
                    /\ game_log_seq' = d.seq
                    /\ run' = IF Tail(run.pending) = <<>>
                              THEN NextDate(written, tables)
                              ELSE written
        /\ UNCHANGED <<rosters_pc, player_map, workers, last, fetch, call>>

NextBrefRun ==
    \/ BrefRunStart
    \/ \E games \in 0..MaxGames : BrefRunGames(games)
    \/ \E page \in RunPages : BrefRunPage(page)
    \/ \E raises \in BOOLEAN : BrefRunWrite(raises)

SpecBrefRun == Init /\ [][NextBrefRun]_vars

\* the team ids of static_teams.get_teams()
RunTeams == <<1, 2>>

\* team_lookup: the abbreviation of a team id
TeamAbbr(team_id) == IF team_id = 1 THEN "PHX" ELSE "GSW"

\* the (PLAYER_ID, PLAYER) pairs of a roster
RosterEntries == {<<1, NamePlain>>, <<2, NameAccent>>}

\* the rosters CommonTeamRoster returns with rows
Rosters == (SUBSET RosterEntries) \ {{}}

\* the rows of the data frame PlayerGameLogs returns for a player
RunLogs == {row \in ApiLogs : row.MIN # Null}

\* the stats-API backfills: whether main builds player_map from the team
\* rosters, and the retry loops its two phases call
ApiScripts ==
    {[script |-> "fetch_all_players_advanced_box_scores", rosters |-> TRUE,
      team_script |-> "fetch_all_players_advanced_box_scores",
      player_script |-> "fetch_all_players_advanced_box_scores",
      player_fn |-> "fetch_player_advanced_game_logs"],
     [script |-> "fetch_team_rosters_and_logs", rosters |-> TRUE,
      team_script |-> "fetch_team_rosters_and_logs",
      player_script |-> "fetch_todays_stats",
      player_fn |-> "fetch_player_game_logs"],
     [script |-> "fetch_todays_stats", rosters |-> FALSE,
      team_script |-> "none",
      player_script |-> "fetch_todays_stats",
      player_fn |-> "fetch_player_game_logs"]}

\* the script of the run under way
ApiScriptOf(r) == CHOOSE a \in ApiScripts : a.script = r.script

\* the retry loop a phase of the run calls
TeamLoop(a) ==
    CHOOSE l \in RetryLoops :
        l.script = a.team_script /\ l.fn = "fetch_team_players"

PlayerLoop(a) ==
    CHOOSE l \in RetryLoops :
        l.script = a.player_script /\ l.fn = a.player_fn

\* sorted(player_map.keys()): the ids of a set in rising order
RECURSIVE SortedIds(_)
SortedIds(ids) ==
    IF ids = {} THEN <<>>
    ELSE LET least == CHOOSE i \in ids : \A j \in ids : i <= j
         IN  <<least>> \o SortedIds(ids \ {least})

\* the name and the team player_map holds for an id: the entry stored last
NameOf(map, player_id) ==
    (CHOOSE e \in map : e[1] = player_id)[2]

AbbrOf(map, player_id) ==
    (CHOOSE e \in map : e[1] = player_id)[3]

\* main of a stats-API backfill with TEST_MODE False: the connection is
\* open; fetch_todays_stats reads its players from the store, the others
\* start on the team list
ApiRunStart(a) ==
    /\ run.pc \in {"idle", "done", "aborted"}
    /\ fetch.pc # "call"
    /\ fetch' = NoFetch
    /\ run' = IF a.rosters
              THEN [Started(a.script) EXCEPT !.pc = "team",
                                             !.teams = RunTeams]
              ELSE LET top_players == SortedIds({p.player_id : p \in players})
                   IN  [Started(a.script) EXCEPT
                          !.pc = IF top_players = <<>> THEN "done"
                                 ELSE "player",
                          !.queue = top_players]
    /\ UNCHANGED <<players, player_game_logs, advanced_box_scores,
                   game_log_seq, rosters_pc, player_map, workers, last,
                   call>>

\* "for team_id in team_ids": fetch_team_players is entered
ApiRunTeam ==
    /\ run.pc = "team"
    /\ fetch' = Begun(TeamLoop(ApiScriptOf(run)), 0)
    /\ run' = [Requested(run) EXCEPT !.pc = "roster",
                                     !.unit = Head(run.teams)]
    /\ UNCHANGED <<players, player_game_logs, advanced_box_scores,
                   game_log_seq, rosters_pc, player_map, workers, last,
                   call>>

\* a handler that gives up the unit whose fetch raised and every unit after it
AbandonedRun(r, spent) ==
    [r EXCEPT !.exhausted = r.exhausted \/ spent,
              !.teams = IF r.teams = <<>> THEN <<>> ELSE <<Head(r.teams)>>,
              !.queue = IF r.queue = <<>> THEN <<>> ELSE <<Head(r.queue)>>]

\* "except Exception as exc": the unit whose fetch raised is given up:
\* random_delay(2000, 5000), continue; spent tells whether the fetch had
\* made its last attempt
Abandoned(r, spent) ==
    [Delayed(r) EXCEPT !.exhausted = r.exhausted \/ spent]

\* the team loop moves on; after the last team the player loop starts on
\* sorted(player_map.keys())
NextTeam(r, map) ==
    IF Tail(r.teams) # <<>>
    THEN [r EXCEPT !.teams = Tail(r.teams), !.map = map, !.pc = "team"]
    ELSE LET ids == SortedIds({e[1] : e \in map})
         IN  [r EXCEPT !.teams = <<>>, !.map = map, !.queue = ids,
                       !.pc = IF ids = <<>> THEN "done" ELSE "player"]

\* player_map with the roster's entries put under their ids, each with the
\* abbreviation of the roster's team
MapRoster(map, roster, team_abbr) ==
    {e \in map : ~\E n \in roster : n[1] = e[1]}
    \cup {<<n[1], n[2], team_abbr>> : n \in roster}

\* fetch_team_players has returned or raised: the rest of the loop body
ApiRunRoster(roster) ==
    LET map == run.map
        spent == fetch.attempt = LoopOf(fetch).max_attempts
    IN  /\ run.pc = "roster"
        /\ FetchDone
        /\ fetch' = NoFetch
        /\ run' =
             IF fetch.pc = "raised"
             THEN NextTeam(Abandoned(run, spent), map)
             ELSE IF fetch.result = "empty"
             THEN NextTeam(Delayed(run), map)
             ELSE NextTeam(Delayed(run),
                           MapRoster(map, roster, TeamAbbr(run.unit)))
        /\ UNCHANGED <<players, player_game_logs, advanced_box_scores,
                       game_log_seq, rosters_pc, player_map, workers, last,
                       call>>

\* the player loop moves on; after the last player the with block commits
NextPlayer(r) ==
    [r EXCEPT !.queue = Tail(r.queue),
              !.pc = IF Tail(r.queue) = <<>> THEN "done" ELSE "player"]

\* fetch_all_players_advanced_box_scores.main before its request: a player
\* without game logs, or whose game logs all have advanced stats, is skipped
NothingToFetch(logs, adv, player_id) ==
    LET dates == date_lookup(logs, player_id, SEASON)
        game_ids == game_id_lookup(logs, player_id, SEASON)
        ids == {dates[d] : d \in DOMAIN dates}
               \cup {game_ids[k] : k \in DOMAIN game_ids}
    IN  \/ DOMAIN dates = {} /\ DOMAIN game_ids = {}
        \/ ids \subseteq get_existing_advanced_game_log_ids(logs, adv,
                                                            player_id, SEASON)

\* "for player_id in sorted(player_map.keys())": the player's fetch is
\* entered, unless the advanced backfill skips the player
ApiRunPlayer ==
    LET a == ApiScriptOf(run)
        player_id == Head(run.queue)
        skip == /\ a.player_fn = "fetch_player_advanced_game_logs"
                /\ NothingToFetch(player_game_logs, advanced_box_scores,
                                  player_id)
    IN  /\ run.pc = "player"
        /\ IF skip
           THEN /\ run' = NextPlayer(run)
                /\ UNCHANGED fetch
           ELSE /\ fetch' = Begun(PlayerLoop(a), 0)
                /\ run' = [Requested(run) EXCEPT !.pc = "logs",
                                                 !.unit = player_id]
        /\ UNCHANGED <<players, player_game_logs, advanced_box_scores,
                       game_log_seq, rosters_pc, player_map, workers, last,
                       call>>

\* the statements of one player of fetch_team_rosters_and_logs and of
\* fetch_todays_stats: ensure_player_exists (the former only), then the
\* insert of each log
WritePlayerLogs(a, d, map, player_id, row) ==
    LET g == InsertGameLogDoNothing(d.logs, d.seq, player_id, SEASON,
                                    ApiGameLog(row))
    IN  [players |-> IF a.rosters
                     THEN ensure_player_exists(d.players, player_id,
                                               NameOf(map, player_id),
                                               AbbrOf(map, player_id))
                     ELSE d.players,
         logs |-> g.logs, seq |-> g.seq, adv |-> d.adv]

\* the statements of one player of fetch_all_players_advanced_box_scores
WritePlayerAdvanced(d, player_id, df) ==
    [players |-> d.players, logs |-> d.logs, seq |-> d.seq,
     adv |-> ProcessPlayerAdvanced(d.logs, d.adv, player_id, df).adv]

\* the player's fetch has returned or raised: the rest of the loop body.
\* The statements are in no try block: one that raises ends main
ApiRunLogs(row, df, raises) ==
    LET a == ApiScriptOf(run)
        unit == [kind |-> "player", id |-> run.unit]
        spent == fetch.attempt = LoopOf(fetch).max_attempts
        advanced == a.player_fn = "fetch_player_advanced_game_logs"
        d == IF advanced THEN WritePlayerAdvanced(Store, run.unit, df)
             ELSE WritePlayerLogs(a, Store, run.map, run.unit, row)
        tables == [players |-> d.players, logs |-> d.logs, adv |-> d.adv]
    IN  /\ run.pc = "logs"
        /\ FetchDone
        /\ fetch' = NoFetch
        /\ IF fetch.pc = "raised"
           THEN /\ run' = NextPlayer(Abandoned(run, spent))
                /\ UNCHANGED <<players, player_game_logs,
                               advanced_box_scores, game_log_seq>>
           ELSE IF fetch.result = "empty"
           THEN /\ run' = NextPlayer(Delayed(run))
                /\ UNCHANGED <<players, player_game_logs,
                               advanced_box_scores, game_log_seq>>
           ELSE IF raises
           THEN /\ run' = Aborted(run)
                /\ players' = run.committed.players
                /\ player_game_logs' = run.committed.logs
                /\ advanced_box_scores' = run.committed.adv
                /\ UNCHANGED game_log_seq
           ELSE /\ Room
                /\ players' = d.players
                /\ player_game_logs' = d.logs
                /\ advanced_box_scores' = d.adv
                /\ game_log_seq' = d.seq
                /\ run' = [NextPlayer(Delayed(run)) EXCEPT
                             !.committed = tables,
                             !.ingested = run.ingested \cup {unit},
                             !.resumed = run.resumed \/ run.exhausted]
        /\ UNCHANGED <<rosters_pc, player_map, workers, last, call>>

NextApiRun ==
    \/ \E a \in ApiScripts : ApiRunStart(a)
    \/ ApiRunTeam
    \/ \E roster \in Rosters : ApiRunRoster(roster)
    \/ ApiRunPlayer
    \/ \E row \in RunLogs, df \in FramesUpTo(1), raises \in BOOLEAN :
          ApiRunLogs(row, df, raises)
    \/ \E outcome \in Outcomes, second \in Outcomes, jitter \in {0} :
          FetchAttempt(outcome, second, jitter)

SpecApiRun == Init /\ [][NextApiRun]_vars

----------------------------------------------------------------------------
(* fetch_headshots.py: normalize_name.  A name is a sequence of characters *)

\* unicodedata.normalize('NFKD', c) for one character: an accented letter
\* becomes its base letter followed by the combining mark
NFKD(c) ==
    CASE c = "ê" -> <<"e", "U+0302">>
      [] c = "é" -> <<"e", "U+0301">>
      [] c = "ñ" -> <<"n", "U+0303">>
      [] c = "ç" -> <<"c", "U+0327">>
      [] c = "ü" -> <<"u", "U+0308">>
      [] OTHER -> <<c>>

\* unicodedata.combining(c) is non-zero
combining(c) == c \in {"U+0301", "U+0302", "U+0303", "U+0308", "U+0327"}

\* str.lower() for one character
lower(c) ==
    CASE c = "D" -> "d" [] c = "I" -> "i" [] c = "J" -> "j"
      [] c = "L" -> "l" [] c = "N" -> "n" [] c = "R" -> "r"
      [] c = "S" -> "s" [] c = "V" -> "v"
      [] OTHER -> c

RECURSIVE Decompose(_)
Decompose(name) ==
    IF name = <<>> THEN <<>> ELSE NFKD(Head(name)) \o Decompose(Tail(name))

RECURSIVE DropCombining(_)
DropCombining(name) ==
    IF name = <<>> THEN <<>>
    ELSE IF combining(Head(name)) THEN DropCombining(Tail(name))
    ELSE <<Head(name)>> \o DropCombining(Tail(name))

Lowered(name) == [i \in 1..Len(name) |-> lower(name[i])]

\* the suffix list, in the order the loop visits it
Suffixes ==
    << <<" ", "j", "r", ".">>, <<" ", "j", "r">>, <<" ", "s", "r", ".">>,
       <<" ", "s", "r">>, <<" ", "i", "i", "i">>, <<" ", "i", "i">>,
       <<" ", "i", "v">> >>

endswith(name, suffix) ==
    /\ Len(name) >= Len(suffix)
    /\ SubSeq(name, Len(name) - Len(suffix) + 1, Len(name)) = suffix

\* "for suffix in [...]: if normalized.endswith(suffix): strip it"
RECURSIVE StripSuffixes(_, _)
StripSuffixes(name, i) ==
    IF i > Len(Suffixes) THEN name
    ELSE IF endswith(name, Suffixes[i])
    THEN StripSuffixes(SubSeq(name, 1, Len(name) - Len(Suffixes[i])), i + 1)
    ELSE StripSuffixes(name, i + 1)

\* str.strip(): leading and trailing blanks removed
RECURSIVE strip(_)
strip(name) ==
    IF name = <<>> THEN name
    ELSE IF Head(name) = " " THEN strip(Tail(name))
    ELSE IF name[Len(name)] = " " THEN strip(SubSeq(name, 1, Len(name) - 1))
    ELSE name

normalize_name(name) ==
    strip(StripSuffixes(Lowered(DropCombining(Decompose(name))), 1))

----------------------------------------------------------------------------
(* Re-ingestion and overwrite *)

\* the three tables of a store record
Tables(d) == <<d.players, d.logs, d.adv>>

\* the box-score lines that pass the activity filter
PlayedRows == {row \in BrefRows : ~DidNotPlay(row)}

\* C1: for every box-score record that is ingested (resolve player, upsert
\* game log, upsert advanced stats), ingesting it a second time leaves
\* players, player_game_logs and advanced_box_scores as the first ingestion
\* left them, with exactly one game log for (player, season, date)
IngestTwiceIsIngestOnce ==
    \A row \in PlayedRows, target_date \in Dates :
      LET stats == fetch_all_stats_for_game(row)
          season_string == get_season_string(target_date)
      IN  \A first \in PlayerPicks(players, stats.name) :
            LET once == IngestAllStats(Store, stats, target_date,
                                       season_string, first)
            IN  \A second \in PlayerPicks(once.players, stats.name) :
                  LET twice == IngestAllStats(once, stats, target_date,
                                              season_string, second)
                  IN  /\ Tables(twice) = Tables(once)
                      /\ Cardinality({g \in twice.logs :
                             /\ g.season = season_string
                             /\ g.game_date = target_date
                             /\ g.player_id \in {once.player_id,
                                                  twice.player_id}}) = 1

\* stats of every record the Basketball Reference scripts can write
BrefWrites ==
    {StatsOf(fetch_all_stats_for_game(row)) : row \in PlayedRows}
    \cup {StatsOf(fetch_box_scores_for_game(row)) :
             row \in {r \in BasicRows : ~DidNotPlay(r)}}
    \cup {StatsOf(BoxStats(box)) : box \in Boxes}

\* a stored row under the key holds exactly these stats
HoldsStats(logs, pid, season, game_date, stats) ==
    \A g \in LogsAt(logs, pid, season, game_date) : StatsOf(g) = StatsOf(stats)

GameLogKeyUnique ==
    \A g, h \in player_game_logs :
      (g.player_id = h.player_id /\ g.season = h.season
       /\ g.game_date = h.game_date) => g = h

\* C3 witness: an ingestion has just met a key that was already stored
IngestedOnStoredKey ==
    last.hit /\ player_game_logs # {}

\* C4: two source names with equal normalize_name results, resolved one
\* after the other by get_or_create_player, get the same player_id and add
\* at most one players row
ResolvesByNormalizedName ==
    \A first \in PlayerNames, second \in PlayerNames :
      normalize_name(first) = normalize_name(second) =>
        \A team \in ApiTeams, row1 \in PlayerPicks(players, first) :
          LET r1 == get_or_create_player(players, first, team, row1)
          IN  \A row2 \in PlayerPicks(r1.players, second) :
                LET r2 == get_or_create_player(r1.players, second, team, row2)
                IN  /\ r2.player_id = r1.player_id
                    /\ Cardinality(r2.players) <= Cardinality(players) + 1

\* C5: no two players rows have the same full_name
FullNameUnique ==
    \A p, q \in players : p.full_name = q.full_name => p = q

----------------------------------------------------------------------------
(* Matching advanced rows *)

\* the state of the row loop before its first row
LoopStart == [adv |-> advanced_box_scores, inserted |-> 0, skipped |-> 0,
              unmatched |-> 0, rows |-> 0, undated |-> 0]

\* one row put through the loop body on the current store
RowOnStore(player_id, row) ==
    AdvancedRow(LoopStart, row,
                date_lookup(player_game_logs, player_id, SEASON),
                game_id_lookup(player_game_logs, player_id, SEASON),
                get_existing_advanced_game_log_ids(player_game_logs,
                    advanced_box_scores, player_id, SEASON))

\* the stored game logs of the player that carry the row's date, and those
\* that carry its game id
SameDate(player_id, row) ==
    {g \in PlayerSeasonLogs(player_game_logs, player_id, SEASON) :
        g.game_date = parse_game_date(row.GAME_DATE)}

SameGameId(player_id, row) ==
    {g \in PlayerSeasonLogs(player_game_logs, player_id, SEASON) :
        row.GAME_ID \notin {NullText, ""} /\ g.game_id = row.GAME_ID}

\* C9: an advanced row whose date cannot be parsed and that has no usable
\* game id, and more generally a row that matches no stored game log by
\* date or by game id, is counted as unmatched and writes nothing; a run
\* counts every undated row as unmatched and adds no row for it
UnmatchedRowWritesNothing ==
    /\ \A id \in SourceIds, row \in AdvRows :
         (Undated(row)
            \/ (SameDate(id, row) = {} /\ SameGameId(id, row) = {})) =>
           LET st == RowOnStore(id, row)
           IN  /\ st.unmatched = 1
               /\ st.inserted = 0
               /\ st.skipped = 0
               /\ st.adv = advanced_box_scores
    /\ last.op = "advanced" =>
         /\ last.unmatched >= last.undated
         /\ last.added + last.undated <= last.rows

\* C9 witness: a run has met a row without parseable date and game id and
\* added nothing
UndatedRowSeen ==
    last.op = "advanced" /\ last.undated >= 1 /\ last.unmatched >= 1
    /\ last.added = 0

\* C10: whenever a stored game log of the player carries the row's parsed
\* date, the row is matched to that game log, whatever the game ids say;
\* the game id decides only when no game log carries the date
DateKeyFirst ==
    \A id \in SourceIds, row \in AdvRows :
      LET matched == MatchAdvancedRow(row,
                         date_lookup(player_game_logs, id, SEASON),
                         game_id_lookup(player_game_logs, id, SEASON))
      IN  /\ \A g \in SameDate(id, row) : matched = g.game_log_id
          /\ SameDate(id, row) = {} =>
                /\ \A g \in SameGameId(id, row) : matched = g.game_log_id
                /\ SameGameId(id, row) = {} => matched = NoMatch

\* C10 witness: a run has inserted a row while the store holds two game
\* logs such that some source row has the date of one and the game id of
\* the other
KeysDisagree ==
    /\ last.op = "advanced"
    /\ last.inserted >= 1
    /\ \E id \in SourceIds, row \in AdvRows :
         \E g \in SameDate(id, row), h \in SameGameId(id, row) : g # h


----------------------------------------------------------------------------
(* Two writers at once *)

Finished(w) == workers[w].pc \in {"done", "failed"}

\* C6: when two workers run get_or_create_player at once for the same name,
\* each on its own connection, no interleaving of their statements and
\* commits ends with two players rows for that name.
OneIdentityPerNameConcurrently ==
    (/\ \A w \in Workers : workers[w].kind = "bref" /\ Finished(w)
     /\ workers[1].input.name = workers[2].input.name)
    => Cardinality({p \in players :
                      p.full_name = workers[1].input.name}) <= 1

\* both workers resolved the same player, so both wrote the same
\* (player_id, season, game_date)
SameKey ==
    /\ workers[1].player_id # 0
    /\ workers[1].player_id = workers[2].player_id
    /\ workers[1].game_date = workers[2].game_date

----------------------------------------------------------------------------
(* Advanced rows *)

BothRatings(a) == a.offensive_rating # Null /\ a.defensive_rating # Null

\* C11: every advanced_box_scores row that has both an offensive and a
\* defensive rating has net_rating = offensive_rating - defensive_rating.
NetRatingIsDifference ==
    \A a \in advanced_box_scores :
        BothRatings(a) => a.net_rating = a.offensive_rating - a.defensive_rating


\* the last step wrote an advanced record for a game log that already had
\* an advanced row
AdvancedOnStoredRow == last.adv_id # NoMatch /\ last.adv_had

\* the advanced row of the last step's game log holds the record's values
StoredIsLastRecord ==
    \E a \in advanced_box_scores :
        a.game_log_id = last.adv_id /\ HoldsAdvanced(a, last.adv_rec)

BrefOps == {"bref_html", "bref_advanced"}

AdvancedOwned ==
    \A a \in advanced_box_scores :
        \E g \in player_game_logs : g.game_log_id = a.game_log_id

\* the scripts that ingest advanced records only
AdvancedOnlyOps == {"bref_advanced", "advanced"}

\* C13: in every reachable state every advanced_box_scores row's
\* game_log_id is the id of a stored player_game_logs row, and a step of a
\* script that ingests advanced records only leaves player_game_logs as
\* it was.
AdvancedRowsOwned ==
    /\ []AdvancedOwned
    /\ [][last'.op \in AdvancedOnlyOps =>
            player_game_logs' = player_game_logs]_vars

\* C13 witness: an advanced-only step has written a row
AdvancedOnlyWrote ==
    /\ last.op \in AdvancedOnlyOps
    /\ last.inserted >= 1
    /\ \E a \in advanced_box_scores : a.game_log_id \in
         {g.game_log_id : g \in player_game_logs}


\* C14: a record with base stats and no advanced fields creates a game log
\* and no advanced row; an advanced-only record for the same player name
\* and date then matches that game log and creates one advanced row
\* with net_rating = ortg - drtg.
AdvancedAfterBase ==
    /\ (last.op = "bref_html" /\ last.created /\ last.adv_id = NoMatch) =>
          \E g \in player_game_logs :
              \A a \in advanced_box_scores : a.game_log_id # g.game_log_id
    /\ (last.op = "bref_advanced" /\ last.adv_id # NoMatch /\ ~last.adv_had) =>
          /\ last.added = 1
          /\ \E g \in player_game_logs : g.game_log_id = last.adv_id
          /\ \E a \in advanced_box_scores :
                /\ a.game_log_id = last.adv_id
                /\ a.net_rating = a.offensive_rating - a.defensive_rating

----------------------------------------------------------------------------
(* Retrying fetches *)

\* sleeps the loop of fetch has taken between attempts
NapsBetween == fetch.naps - (IF LoopOf(fetch).initial THEN 1 ELSE 0)

\* a returned fetch returns the result of its only successful call, and every
\* call before it failed
ReturnsFirstSuccess ==
    fetch.pc = "returned" =>
        /\ Succeeds(fetch.result)
        /\ fetch.failed = fetch.calls - 1

\* a fetch whose last attempt failed has raised after one sleep per earlier
\* attempt and none after the last
RaisesWithoutSleeping ==
    (fetch.pc = "raised" /\ fetch.fallbacks = 0) =>
        /\ fetch.attempt = LoopOf(fetch).max_attempts
        /\ fetch.failed = fetch.calls
        /\ NapsBetween = LoopOf(fetch).max_attempts - 1

\* C15 as stated: every retrying fetch calls the endpoint at most
\* max_attempts times, returns the first successful result, and raises the
\* failure of attempt max_attempts without sleeping again
RetryingFetchBounded ==
    fetch.pc # "idle" =>
        /\ fetch.attempt <= LoopOf(fetch).max_attempts
        /\ fetch.calls <= LoopOf(fetch).max_attempts
        /\ ReturnsFirstSuccess
        /\ RaisesWithoutSleeping

\* C15 amended: a retrying fetch makes at most max_attempts passes of its
\* loop with one call each, fetch_team_players at most one more call under
\* the other argument names; it returns the first successful result, and it
\* raises the failure of attempt max_attempts without sleeping again
RetryingFetchBoundedWithFallback ==
    fetch.pc # "idle" =>
        /\ fetch.attempt <= LoopOf(fetch).max_attempts
        /\ fetch.calls - fetch.fallbacks <= LoopOf(fetch).max_attempts
        /\ fetch.calls - fetch.fallbacks <= fetch.attempt
        /\ fetch.fallbacks <= (IF LoopOf(fetch).fallback THEN 1 ELSE 0)
        /\ ReturnsFirstSuccess
        /\ RaisesWithoutSleeping

\* a fetch_team_players returned on call max_attempts + 1, and some fetch
\* raised the failure of its last attempt
ReturnedOnExtraCall ==
    /\ fetch.pc = "returned"
    /\ fetch.calls = LoopOf(fetch).max_attempts + 1

\* the last sleep was taken after a failed attempt (not before the first)
SleptAfterFailure == fetch.nap.after >= 1

\* the last sleep is 1000 * k + 0..500 ms after failed attempt k
LinearNap ==
    /\ fetch.nap.ms >= 1000 * fetch.nap.after
    /\ fetch.nap.ms <= 1000 * fetch.nap.after + 500

\* the last sleep is 2 ** k seconds + 1..3 seconds after failed attempt k
ExponentialNap ==
    /\ fetch.nap.ms >= 1000 * (2 ^ fetch.nap.after) + 1000
    /\ fetch.nap.ms <= 1000 * (2 ^ fetch.nap.after) + 3000

\* C16 as stated: in every retry loop the sleep after the k-th failed
\* attempt is between 1000 * k and 1000 * k + 500 milliseconds
SleepLinearEveryLoop == SleptAfterFailure => LinearNap

\* C16 amended: the sleep after the k-th failed attempt is between 1000 * k
\* and 1000 * k + 500 milliseconds in every retry loop but that of
\* fetch_yesterdays_games.fetch_team_players, whose sleep is 2 ** k seconds
\* plus 1 to 3 seconds
SleepLinearButOneLoop ==
    SleptAfterFailure =>
        IF fetch.script = "fetch_yesterdays_games"
           /\ fetch.fn = "fetch_team_players"
        THEN ExponentialNap
        ELSE LinearNap

\* fetch_yesterdays_games.fetch_team_players slept 5 seconds or more after
\* its second failed attempt
SleptExponentially ==
    /\ fetch.nap.after = 2
    /\ fetch.nap.ms >= 5000
    /\ fetch.attempt = 3

\* C17: in fetch_team_players a TypeError of the primary call is answered by
\* one call under the fallback argument names, and a failure of that call
\* is retried by the loop while attempts remain: the fetch raises it only
\* when the attempt was the last
FallbackFailureRetried ==
    /\ fetch.fallbacks <= 1
    /\ (fetch.pc = "raised" /\ fetch.fallbacks = 1) =>
           fetch.attempt = LoopOf(fetch).max_attempts

----------------------------------------------------------------------------
(* Runs *)

\* C18: in every run a random_delay is taken between any two requests that
\* are not retries of one operation, whether the earlier request succeeded,
\* failed or returned nothing
DelayBetweenRequests == ~run.rude

\* the record written for name on game_date is in player_game_logs
StoredRecord(k) ==
    \E p \in players, g \in player_game_logs :
        /\ p.full_name = k.name
        /\ g.player_id = p.player_id
        /\ g.game_date = k.game_date

\* C19: a statement that raises while one record is written ends only that
\* record: the run goes on with the next record, and the records the run
\* wrote before are stored when the run ends
StoreFailureIsolated ==
    run.failed =>
        /\ run.pc # "aborted"
        /\ \A k \in run.ingested : StoredRecord(k)

\* the run is in the handler of a fetch that raised after its last attempt
FetchExhausted ==
    /\ run.pc \in {"roster", "logs"}
    /\ fetch.pc = "raised"

\* the step gives up the unit of the fetch and nothing else: the loop is at
\* its next unit after a random_delay, and no table has changed
OnlyUnitAbandoned ==
    /\ run'.pc \in {"team", "player", "done"}
    /\ run'.polite
    /\ run.pc = "roster" =>
           (run'.teams = Tail(run.teams) /\ run'.map = run.map)
    /\ run.pc = "logs" => run'.queue = Tail(run.queue)
    /\ run'.ingested = run.ingested
    /\ run'.committed = run.committed
    /\ UNCHANGED <<players, player_game_logs, advanced_box_scores>>

\* what the run committed is stored
CommittedKept ==
    /\ run.committed.logs \subseteq player_game_logs
    /\ run.committed.adv \subseteq advanced_box_scores

\* C20: when the retries of the fetch of one team or player are exhausted,
\* only that unit is given up: the run goes on to the next unit, the writes
\* of earlier units stay stored, and a run ends early only when a statement
\* raised
FetchFailureIsolated ==
    /\ [](CommittedKept /\ (run.pc = "aborted" => run.failed))
    /\ [][(FetchExhausted /\ run' # run) => OnlyUnitAbandoned]_vars

\* a player was fetched and written after the fetch of an earlier unit had
\* raised on its last attempt, and what the run wrote is stored
IngestedAfterExhaustion ==
    /\ run.resumed
    /\ run.exhausted
    /\ run.ingested # {}
    /\ player_game_logs # {}

----------------------------------------------------------------------------
(* The value helpers applied to raw inputs *)

\* raw cells of a box-score table or of a stats frame
RawCells ==
    {Nan, Junk, Blank, Inf, NanText}
    \cup {Clock(mm, ss) : mm \in {0, 35}, ss \in {0, 30, 45}}
    \cup {Num(n) : n \in {0, 567, 7000, 12500, 33450, 35500, 0 - 3000,
                          0 - 500}}

\* cells of an MP column: a clock, a count of minutes, or no number
MinuteCells ==
    {v \in RawCells : v.k \in {"clock", "nan", "junk", "blank"}}
    \cup {Clock(34, 30), Clock(12, 29)}
    \cup {v \in RawCells : v.k = "num" /\ v.a >= 0}

\* cells of a percentage column: a number, or text float() rejects
PctCells == {v \in RawCells : v.k \in {"num", "junk", "blank"}}

\* the percentage columns of the advanced table of a box-score page
PctColumns == {"TS", "eFG", "USG"}

\* raw GAME_DATE values
RawDates ==
    {RawDate(f, d) : f \in {"bdY", "iso", "isoT", "ts", "junk", "empty"},
                     d \in Dates}

\* the listed suffixes as sources print them
SuffixTexts ==
    {<<" ", "J", "r", ".">>, <<" ", "J", "r">>, <<" ", "S", "r", ".">>,
     <<" ", "S", "r">>, <<" ", "I", "I", "I">>, <<" ", "I", "I">>,
     <<" ", "I", "V">>}

\* player names: a spelling, up to two suffixes, maybe a trailing blank
NameInputs ==
    {n \o s1 \o s2 \o t :
        n \in PlayerNames, s1 \in SuffixTexts \cup {<<>>},
        s2 \in SuffixTexts \cup {<<>>}, t \in {<<>>, <<" ">>}}

\* the value helpers that take one raw cell
parse_helpers ==
    {"parse_minutes", "parse_int", "parse_pct", "parse_rating", "to_float"}

Called(fn, arg, out, raised) ==
    [fn |-> fn, arg |-> arg, out |-> out, raised |-> raised]

CallParseMinutes(v) ==
    /\ call' = Called("parse_minutes", v, parse_minutes(v), FALSE)
    /\ UNCHANGED <<players, player_game_logs, advanced_box_scores,
                   game_log_seq, rosters_pc, fetch, run, player_map,
                   workers, last>>

CallParseInt(v) ==
    /\ call' = Called("parse_int", v, parse_int(v),
                      parse_int(v) = OverflowError)
    /\ UNCHANGED <<players, player_game_logs, advanced_box_scores,
                   game_log_seq, rosters_pc, fetch, run, player_map,
                   workers, last>>

CallParsePct(v) ==
    /\ call' = Called("parse_pct", v, parse_pct(v), FALSE)
    /\ UNCHANGED <<players, player_game_logs, advanced_box_scores,
                   game_log_seq, rosters_pc, fetch, run, player_map,
                   workers, last>>

CallParseRating(v) ==
    /\ call' = Called("parse_rating", v, parse_rating(v), FALSE)
    /\ UNCHANGED <<players, player_game_logs, advanced_box_scores,
                   game_log_seq, rosters_pc, fetch, run, player_map,
                   workers, last>>

CallToFloat(v) ==
    /\ call' = Called("to_float", v, to_float(v), FALSE)
    /\ UNCHANGED <<players, player_game_logs, advanced_box_scores,
                   game_log_seq, rosters_pc, fetch, run, player_map,
                   workers, last>>

\* the date parsing of fetch_player_game_logs on one GAME_DATE value
CallParseLogDate(raw) ==
    /\ call' = Called("ParseLogDate", raw, ParseLogDate(raw),
                      ParseLogDate(raw) = DateValueError)
    /\ UNCHANGED <<players, player_game_logs, advanced_box_scores,
                   game_log_seq, rosters_pc, fetch, run, player_map,
                   workers, last>>

\* fetch_all_stats_for_game on a line whose percentage cell col holds v:
\* the value it hands to upsert_advanced_stats for that column
CallAdvancedLine(col, v) ==
    LET row == HtmlRow(NamePlain, "GSW", "PHO", LineA,
                       [AdvCellsA EXCEPT ![col] = v])
        stats == fetch_all_stats_for_game(row)
    IN  /\ call' = Called(col, v,
                          CASE col = "TS" -> stats.ts_pct
                            [] col = "eFG" -> stats.efg_pct
                            [] OTHER -> stats.usg_pct,
                          FALSE)
        /\ UNCHANGED <<players, player_game_logs, advanced_box_scores,
                       game_log_seq, rosters_pc, fetch, run, player_map,
                       workers, last>>

\* extract_advanced_stats_from_row: get_pct_as_whole of a frame value
CallGetPctAsWhole(v) ==
    /\ call' = Called("get_pct_as_whole", v, get_pct_as_whole(to_float(v)),
                      FALSE)
    /\ UNCHANGED <<players, player_game_logs, advanced_box_scores,
                   game_log_seq, rosters_pc, fetch, run, player_map,
                   workers, last>>

CallNormalizeName(name) ==
    /\ call' = Called("normalize_name", name, normalize_name(name), FALSE)
    /\ UNCHANGED <<players, player_game_logs, advanced_box_scores,
                   game_log_seq, rosters_pc, fetch, run, player_map,
                   workers, last>>

\* fetch_all_stats_for_game on a line whose MP cell holds v: the 'min' of
\* the game log it builds
CallGameLogMinutes(v) ==
    LET row == HtmlRow(NamePlain, "GSW", "PHO", [LineA EXCEPT !.MP = v],
                       NoAdvCells)
    IN  /\ call' = Called("min", v, fetch_all_stats_for_game(row).min, FALSE)
        /\ UNCHANGED <<players, player_game_logs, advanced_box_scores,
                       game_log_seq, rosters_pc, fetch, run, player_map,
                       workers, last>>

\* fetch_player_game_logs on a frame row whose MIN holds the float v: the
\* "min" of the game log it builds
CallApiLogMinutes(v, d) ==
    LET row == ApiLog(RawDate("bdY", d), <<"GSW", "vs.", "PHX">>, v.a,
                      28, 4, 6, 1, 0)
    IN  /\ v.k = "num"
        /\ call' = Called("MIN", v, ApiGameLog(row).min, FALSE)
        /\ UNCHANGED <<players, player_game_logs, advanced_box_scores,
                       game_log_seq, rosters_pc, fetch, run, player_map,
                       workers, last>>

NextParse ==
    \/ \E v \in MinuteCells : CallGameLogMinutes(v)
    \/ \E v \in MinuteCells, d \in Dates : CallApiLogMinutes(v, d)
    \/ \E name \in NameInputs : CallNormalizeName(name)
    \/ \E col \in PctColumns, v \in PctCells : CallAdvancedLine(col, v)
    \/ \E v \in PctCells : CallGetPctAsWhole(v)
    \/ \E v \in RawCells : CallParseMinutes(v)
    \/ \E v \in RawCells : CallParseInt(v)
    \/ \E v \in RawCells : CallParsePct(v)
    \/ \E v \in RawCells : CallParseRating(v)
    \/ \E v \in RawCells : CallToFloat(v)
    \/ \E raw \in RawDates : CallParseLogDate(raw)

SpecParse == Init /\ [][NextParse]_vars

\* a cell that holds no finite number and no clock
Malformed(v) == v.k \in {"nan", "junk", "blank", "inf", "nantext"}

\* the value a helper documents for such a cell
Sentinel(fn) == IF fn = "to_float" THEN Null ELSE 0

\* C21: no value helper (parse_minutes, parse_int, parse_pct, parse_rating,
\* to_float, the game-date parsing of fetch_player_game_logs) raises for any
\* raw input, and a missing, blank, non-numeric, non-finite or malformed
\* cell yields the helper's sentinel (0, 0.0 or None)
ValueHelpersNeverRaise ==
    /\ call.fn \in parse_helpers \cup {"ParseLogDate"} => ~call.raised
    /\ call.fn \in parse_helpers /\ Malformed(call.arg)
          => call.out = Sentinel(call.fn)

\* what parse_minutes owes for a clock and for a bare number, in 1/60000 min
ClockAndNumberKept ==
    /\ call.arg.k = "clock"
          => call.out = (call.arg.a * 60 + call.arg.b) * 1000
    /\ call.arg.k = "num" => call.out * 1000 = call.arg.a * 60000

ParseIntNonNegative ==
    call.fn = "parse_int"
      => /\ ~call.raised
         /\ call.out \in Nat
         /\ call.arg.k \in {"nan", "blank", "junk"} => call.out = 0

\* C24: every percentage stored in advanced_box_scores is in the
\* whole-number convention rounded to one decimal: a decimal-fraction field
\* (TS%, eFG%, EFG_PCT, TS_PCT, USG_PCT, PIE) is multiplied by 100, the
\* already-whole USG% of Basketball Reference is not, and both are rounded
\* to one decimal
PercentagesRoundedWhole ==
    /\ call.fn \in {"TS", "eFG", "get_pct_as_whole"} /\ call.arg.k = "num"
          => call.out = round_tenth(call.arg.a * 100)
    /\ call.fn = "USG" /\ call.arg.k = "num"
          => call.out = round_tenth(call.arg.a)

\* a name lower-cased, accented letters mapped to their base letter, blanks
\* at both ends trimmed
Folded(name) == strip(Lowered(DropCombining(Decompose(name))))

\* the listed suffixes the name ends in
TrailingSuffixes(name) ==
    {i \in 1..Len(Suffixes) : endswith(name, Suffixes[i])}

\* the name without its trailing listed suffix (the longest one that fits)
WithoutTrailingSuffix(name) ==
    IF TrailingSuffixes(name) = {} THEN name
    ELSE LET i == CHOOSE j \in TrailingSuffixes(name) :
                     \A k \in TrailingSuffixes(name) :
                         Len(Suffixes[k]) <= Len(Suffixes[j])
         IN  strip(SubSeq(name, 1, Len(name) - Len(Suffixes[i])))

\* C25: normalize_name lower-cases, maps accented characters to their base
\* letter, removes a listed suffix from the end of the name and trims
\* whitespace, for every input: also when whitespace follows the suffix,
\* and when the name ends in several listed suffixes only the trailing one
\* is removed
NormalizeRemovesTrailingSuffix ==
    call.fn = "normalize_name"
      => call.out = WithoutTrailingSuffix(Folded(call.arg))

\* C28: normalize_name is idempotent: normalizing a normalized name returns
\* it unchanged
NormalizeIdempotent ==
    call.fn = "normalize_name" => normalize_name(call.out) = call.out

\* the seconds a cell of minutes stands for
SecondsOf(v) ==
    IF v.k = "clock" THEN v.a * 60 + v.b ELSE (v.a * 60) \div 1000

SightedWithTeam(pl, logs, name, team, season, game_date) ==
    \E p \in pl :
       /\ p.full_name = name
       /\ p.team_abbreviation = team
       /\ LogsAt(logs, p.player_id, season, game_date) # {}

\* C27: every sighting of an existing player overwrites the stored team
\* with the sighting's team, also a box-score sighting of the season
\* backfill whose player name is already in the in-memory player_map
TeamOverwrittenOnSighting ==
    [][\A box \in Boxes, d \in Dates :
          RostersBox(box, d)
            => SightedWithTeam(players', player_game_logs', box.name,
                               team_enum_to_abbr(box.team),
                               get_season_string(d), d)]_vars

----------------------------------------------------------------------------
(* The game-log upsert on a stored table *)

StoredLog(id, pid, game_date) ==
    NewLog(id, pid, SEASON, game_date, "GSW",
           [min |-> 30, pts |-> 10, reb |-> 4, ast |-> 6, stl |-> 1,
            blk |-> 0])

\* game logs earlier runs left: two players, two days
StoredLogs ==
    {StoredLog(1, 1, d) : d \in Dates} \cup {StoredLog(2, 2, d) : d \in Dates}
    \cup {StoredLog(3, 1, DateB)}

\* a store with some of these game logs, some of them with an advanced row
InitUpsert ==
    /\ players = SeededPlayers
    /\ player_game_logs \in SUBSET StoredLogs
    /\ advanced_box_scores \in
          SUBSET {SeededAdvanced(g.game_log_id) : g \in player_game_logs}
    /\ game_log_seq = 1 + Cardinality(StoredLogs)
    /\ rosters_pc = "idle"
    /\ fetch = NoFetch
    /\ run = NoRun
    /\ call = NoCall
    /\ player_map = <<>>
    /\ workers = [w \in Workers |-> Idle]
    /\ last = NoStep

\* insert_game_log of the box-score page scripts, once, for the line row
InsertGameLogOnce(row, player_id, game_date) ==
    LET stats == fetch_all_stats_for_game(row)
        season_string == get_season_string(game_date)
        g == insert_game_log(player_game_logs, game_log_seq, player_id,
                             game_date, stats, season_string)
    IN  /\ last = NoStep
        /\ player_game_logs' = g.logs
        /\ game_log_seq' = g.seq
        /\ last' = Step("bref_html", player_id, season_string, game_date,
                        stats, ZeroActivity(stats.min, stats.pts), FALSE,
                        g.logs)
        /\ UNCHANGED <<players, advanced_box_scores, rosters_pc, fetch, run,
                       player_map, workers, call>>

\* the insert_query of the season backfill, once, for the box score box
BackfillUpsertOnce(box, player_id, current_date) ==
    LET stats == BoxStats(box)
        season_string == get_season_string(current_date)
        g == UpsertGameLog(player_game_logs, game_log_seq, player_id,
                           season_string, current_date, stats.opponent, stats)
    IN  /\ last = NoStep
        /\ player_game_logs' = g.logs
        /\ game_log_seq' = g.seq
        /\ last' = Step("bref_backfill", player_id, season_string,
                        current_date, stats,
                        ZeroActivity(stats.min, stats.pts), FALSE, g.logs)
        /\ UNCHANGED <<players, advanced_box_scores, rosters_pc, fetch, run,
                       player_map, workers, call>>

NextUpsert ==
    \/ \E row \in BasicRows, id \in {1, 2}, d \in Dates \cup {DateB} :
          InsertGameLogOnce(row, id, d)
    \/ \E box \in Boxes, id \in {1, 2}, d \in Dates \cup {DateB} :
          BackfillUpsertOnce(box, id, d)

SpecUpsert == InitUpsert /\ [][NextUpsert]_vars

\* the columns of a game log an upsert must leave alone
IdentityOf(g) ==
    <<g.game_log_id, g.player_id, g.season, g.game_date, g.opponent>>

\* C29: a game-log upsert that hits an existing (player_id, season,
\* game_date) row changes only min, pts, reb, ast, stl and blk of that row:
\* its game_log_id, player_id, season, game_date and opponent stay, every
\* other player_game_logs row stays, and every advanced_box_scores row
\* stays
GameLogUpsertKeepsIdentity ==
    [][last'.op \in {"bref_html", "bref_backfill"} /\ last'.hit
         => /\ Cardinality(player_game_logs') = Cardinality(player_game_logs)
            /\ Cardinality(player_game_logs \ player_game_logs') <= 1
            /\ \A g \in player_game_logs :
                  \E h \in player_game_logs' : IdentityOf(h) = IdentityOf(g)
            /\ advanced_box_scores' = advanced_box_scores]_vars

UpsertChangedStoredLog ==
    /\ last.op \in {"bref_html", "bref_backfill"}
    /\ last.hit /\ last.changed
    /\ Cardinality(player_game_logs) >= 2
    /\ advanced_box_scores # {}

\* C30: in a player's turn of fetch_all_players_advanced_box_scores every
\* fetched row is counted in exactly one of inserted, skipped and unmatched
\* (their sum is the number of rows), and inserted is the number of
\* advanced_box_scores rows actually added, also when two fetched rows
\* resolve to the same game_log_id
RowsCountedOnce ==
    last.op = "advanced"
      => /\ last.inserted + last.skipped + last.unmatched = last.rows
         /\ last.inserted = last.added

====
